---- MODULE Spec2Model ----
(***************************************************************************)
(* Model of the audio-producer service (src/audio-producer): the /produce  *)
(* request pipeline of app.py (stem rendering, FX stem, mixing, mastering, *)
(* cleanup, validation and fallback audio) over a shared file system, with *)
(* the helpers it calls in stem_mixer.py, mastering.py, audio_validation.py*)
(* fx_player.py and drum_sampler.py.                                       *)
(***************************************************************************)
EXTENDS Integers, Sequences, FiniteSets, TLC

(***************************************************************************)
(* Bounds of the model                                                     *)
(***************************************************************************)
\* largest number of entries in the "stems" mapping of a request
MaxStems == 2
MaxKicks == 2
MaxDurationMs == 8
MaxAmp == 2
MaxFrames == 2
\* sample values handed to save_wav are multiples of 1 / Levels
Levels == 10
\* samples per category of a drum kit, and calls of get_sample per caller
MaxPool == 2
MaxDraws == 3
\* tracks of a MIDI file, and messages of a track
MaxTracks == 2
MaxMsgs == 2

(***************************************************************************)
(* Program constants                                                       *)
(***************************************************************************)
SampleRate == 44100
WavHeaderBytes == 44
BytesPerFrame == 4
MinFileSize == 1000
MinDurationMs == 2000
MinRmsDb10 == -600
FallbackDurationMs == 30000
\* RMS level, in tenths of a dB, of the kick pattern create_fallback_audio
\* writes: a 60 Hz sine with exp(-15 t) decay, 200 ms long, every 0.5 s,
\* scaled to peak 0.8 (the samples evaluate to an RMS of 0.155 = -16.2 dB)
FallbackRmsDb10 == -162
\* loudnorm's target (I=-14.0) as level of a mastered, non-silent file
MasteredRmsDb10 == -140

\* stands for an RMS of exactly 0 (minus infinity dB)
RmsZero == -100000

\* sidechain amounts are written in tenths (0.5 is 5)
AmountDen == 10
\* sidechain_depth = 0.6 of the audio-based envelope, in tenths
SidechainDepth == 6
\* the 16-bit scale of save_wav and of load_wav
Int16Max == 32767
\* the default attack, hold and release of the MIDI-based envelope
AttackMs == 5
HoldMs == 50
ReleaseMs == 250
Int16Scale == 32768
\* tempo = 500000 microseconds per beat, in ms
DefaultTempo == 500

(***************************************************************************)
(* Files: what the pipeline observes of a file                             *)
(***************************************************************************)
\* header: what wave.open makes of the file's header: "ok", "bad" (it raises
\* wave.Error: no RIFF/WAVE header) or "cut" (it raises EOFError: the file
\* ends inside the header)
NoFile ==
  [exists |-> FALSE, size |-> 0, header |-> "cut", frames |-> 0, rate |-> 0,
   rms |-> RmsZero]

\* a file that exists and holds no byte (NamedTemporaryFile, a renderer that
\* was stopped before it wrote the header)
ZeroBytes ==
  [exists |-> TRUE, size |-> 0, header |-> "cut", frames |-> 0, rate |-> 0,
   rms |-> RmsZero]

\* a 16-bit stereo WAV of the given number of frames and level
Wav(frames, rate, rms) ==
  [exists |-> TRUE, size |-> WavHeaderBytes + BytesPerFrame * frames,
   header |-> "ok", frames |-> frames, rate |-> rate, rms |-> IF frames = 0 THEN RmsZero ELSE rms]

\* audio an external renderer can leave behind
GoodAudio == Wav(3 * SampleRate, SampleRate, -200)
ShortAudio == Wav(SampleRate, SampleRate, -200)
SilentAudio == Wav(3 * SampleRate, SampleRate, RmsZero)
EmptyAudio == Wav(0, SampleRate, RmsZero)

\* wave.open / wavfile.read accept the file (a RIFF header is present)
IsWav(f) == f.exists /\ f.header = "ok"

(***************************************************************************)
(* Paths: sequences of path fragments                                      *)
(***************************************************************************)
NoPath == <<>>

\* str.replace('.wav', '_fallback.wav'): every occurrence of the fragment
\* ".wav" is replaced, a path without it is returned unchanged
RECURSIVE StrReplaceWav(_)
StrReplaceWav(p) ==
  IF p = <<>> THEN <<>>
  ELSE (IF Head(p) = ".wav" THEN <<"_fallback.wav">> ELSE <<Head(p)>>)
       \o StrReplaceWav(Tail(p))

\* os.path.join(STEMS_DIR, f"{name}_{os.getpid()}.wav"): the process id is
\* the same for every request the process serves
getpid(r) == "pid"
TempStem(r, name) == <<"/data/stems/", name, "_", getpid(r), ".wav">>

\* tempfile.NamedTemporaryFile(suffix='.wav', delete=False).name: a fresh
\* name for every call
TmpMixed(r) == <<"/tmp/", "mixed", ToString(r), ".wav">>
TempEq(r) == <<"/tmp/", "eq", ToString(r), ".wav">>
TempComp(r) == <<"/tmp/", "comp", ToString(r), ".wav">>

\* the output paths a client asks for: the extension in lower or upper case
OutputPath(r, ext) == <<"/data/audio/", "final", ToString(r), ext>>
Extensions == {".wav", ".WAV"}

Reqs == {1, 2}

\* names of the entries of a request's "stems" mapping, in request order
StemNames == <<"bass", "lead", "kick", "pad">>
AllStemNames == {StemNames[i] : i \in 1..(MaxStems + 1)} \cup {"drums", "full", "fx"}

AllPaths ==
  UNION {{TempStem(r, n) : n \in AllStemNames} : r \in Reqs}
  \cup UNION {{TmpMixed(r), TempEq(r), TempComp(r)} : r \in Reqs}
  \cup UNION {{OutputPath(r, e) : e \in Extensions} : r \in Reqs}
  \cup UNION {{StrReplaceWav(OutputPath(r, e)) : e \in Extensions} : r \in Reqs}

(***************************************************************************)
(* audio_validation.py                                                     *)
(***************************************************************************)
\* a validator that rejects a file exactly as long as the minimum
validate_audio_file_exclusive(f, min_duration_ms, min_rms_db10) ==
  IF ~f.exists THEN <<FALSE, "File does not exist">>
  ELSE IF f.size = 0 THEN <<FALSE, "File is zero bytes">>
  ELSE IF f.size < MinFileSize THEN <<FALSE, "File suspiciously small">>
  ELSE IF f.header = "bad" THEN <<FALSE, "Invalid WAV format">>
  ELSE IF f.header = "cut" THEN <<FALSE, "Validation error">>
  ELSE IF f.frames = 0 THEN <<FALSE, "WAV has zero frames">>
  ELSE IF f.rate = 0 THEN <<FALSE, "WAV has invalid sample rate">>
  ELSE IF f.frames * 1000 <= min_duration_ms * f.rate
       THEN <<FALSE, "Duration too short">>
  ELSE IF f.rms = RmsZero THEN <<FALSE, "Audio is completely silent (RMS=0)">>
  ELSE IF f.rms < min_rms_db10 THEN <<FALSE, "Audio too quiet">>
  ELSE <<TRUE, "None">>

\* a validator that measures the level before the duration
validate_audio_file_level_first(f, min_duration_ms, min_rms_db10) ==
  IF ~f.exists THEN <<FALSE, "File does not exist">>
  ELSE IF f.size = 0 THEN <<FALSE, "File is zero bytes">>
  ELSE IF f.size < MinFileSize THEN <<FALSE, "File suspiciously small">>
  ELSE IF f.header = "bad" THEN <<FALSE, "Invalid WAV format">>
  ELSE IF f.header = "cut" THEN <<FALSE, "Validation error">>
  ELSE IF f.frames = 0 THEN <<FALSE, "WAV has zero frames">>
  ELSE IF f.rate = 0 THEN <<FALSE, "WAV has invalid sample rate">>
  ELSE IF f.rms = RmsZero THEN <<FALSE, "Audio is completely silent (RMS=0)">>
  ELSE IF f.rms < min_rms_db10 THEN <<FALSE, "Audio too quiet">>
  ELSE IF f.frames * 1000 < min_duration_ms * f.rate
       THEN <<FALSE, "Duration too short">>
  ELSE <<TRUE, "None">>

\* validate_audio_file: (is_valid, error_message); the checks in the order
\* of the code, the first failing one decides.  wave.Error is answered with
\* 'Invalid WAV format', any other exception with 'Validation error'.
validate_audio_file(f, min_duration_ms, min_rms_db10) ==
  IF ~f.exists THEN <<FALSE, "File does not exist">>
  ELSE IF f.size = 0 THEN <<FALSE, "File is zero bytes">>
  ELSE IF f.size < MinFileSize THEN <<FALSE, "File suspiciously small">>
  ELSE IF f.header = "bad" THEN <<FALSE, "Invalid WAV format">>
  ELSE IF f.header = "cut" THEN <<FALSE, "Validation error">>
  ELSE IF f.frames = 0 THEN <<FALSE, "WAV has zero frames">>
  ELSE IF f.rate = 0 THEN <<FALSE, "WAV has invalid sample rate">>
  ELSE IF f.frames * 1000 < min_duration_ms * f.rate
       THEN <<FALSE, "Duration too short">>
  ELSE IF f.rms = RmsZero THEN <<FALSE, "Audio is completely silent (RMS=0)">>
  ELSE IF f.rms < min_rms_db10 THEN <<FALSE, "Audio too quiet">>
  ELSE <<TRUE, "None">>

\* a fallback of one second instead of duration_sec
create_fallback_audio_short(fs, output_path, duration_ms, sample_rate) ==
  [fs EXCEPT ![output_path] = Wav(sample_rate, sample_rate, FallbackRmsDb10)]

\* create_fallback_audio: int(duration_sec * sample_rate) frames of the kick
\* pattern, written as 16-bit stereo to output_path
create_fallback_audio(fs, output_path, duration_ms, sample_rate) ==
  [fs EXCEPT ![output_path] =
     Wav((duration_ms * sample_rate) \div 1000, sample_rate, FallbackRmsDb10)]

(***************************************************************************)
(* app.py: render_midi_to_wav                                              *)
(***************************************************************************)
\* what one run of the external MIDI renderer does: whether it returned
\* exit code 0 (no timeout, no exception), and what it left at the output
\* path (<<>>: it wrote nothing)
RenderOutcomes ==
  {[rc0 |-> TRUE, written |-> <<a>>] :
      a \in {GoodAudio, ShortAudio, SilentAudio, EmptyAudio}}
  \cup {[rc0 |-> TRUE, written |-> <<>>],
        [rc0 |-> FALSE, written |-> <<>>],
        [rc0 |-> FALSE, written |-> <<ZeroBytes>>]}

\* render_midi_to_wav: True iff exit code 0 and the output file exists and
\* is not empty; a nonzero exit, a timeout or an exception gives False
render_midi_to_wav(fs, output_wav, o) ==
  LET fs2 == IF o.written = <<>> THEN fs
             ELSE [fs EXCEPT ![output_wav] = o.written[1]]
  IN [ok |-> o.rc0 /\ fs2[output_wav].exists /\ fs2[output_wav].size > 0,
      fs |-> fs2]

(***************************************************************************)
(* stem_mixer.py: mix_stems                                                *)
(***************************************************************************)
Max(S) == CHOOSE x \in S : \A y \in S : y <= x

\* the stems of the mapping whose file exists, in mapping order (a missing
\* file is reported and skipped)
RECURSIVE LoadedStems(_, _)
LoadedStems(fs, stems) ==
  IF stems = <<>> THEN <<>>
  ELSE (IF fs[Head(stems)[2]].exists THEN <<Head(stems)>> ELSE <<>>)
       \o LoadedStems(fs, Tail(stems))

\* length of a stem after scipy.signal.resample to the rate of the first
\* loaded stem: int(len(data) * sample_rate / rate)
ResampledFrames(f, sample_rate) ==
  IF f.rate = sample_rate THEN f.frames ELSE (f.frames * sample_rate) \div f.rate

\* writes a mix and reports success even when no stem could be loaded
mix_stems_empty_ok(fs, stems, output_path) ==
  LET loaded == LoadedStems(fs, stems)
  IN IF loaded = <<>> \/ \E i \in 1..Len(loaded) : ~IsWav(fs[loaded[i][2]])
     THEN [ok |-> TRUE, fs |-> [fs EXCEPT ![output_path] = EmptyAudio]]
     ELSE [ok |-> TRUE,
           fs |-> [fs EXCEPT ![output_path] =
                     Wav(Max({fs[loaded[i][2]].frames : i \in 1..Len(loaded)}),
                         SampleRate,
                         Max({fs[loaded[i][2]].rms : i \in 1..Len(loaded)}))]]

\* mix_stems: stems is the mapping name -> path as a sequence of <<name,
\* path>> in mapping order.  False (and nothing written) when the mapping is
\* empty, when no stem file exists, or when an exception is raised: a stem
\* file that cannot be decoded, or a mix of length 0 (the peak of an empty
\* array).  Otherwise the mix has the length of the longest stem and the
\* rate of the first one; its level is taken to be that of the loudest stem.
mix_stems(fs, stems, output_path) ==
  LET loaded == LoadedStems(fs, stems)
      fail == [ok |-> FALSE, fs |-> fs]
  IN IF stems = <<>> THEN fail
     ELSE IF \E i \in 1..Len(loaded) : ~IsWav(fs[loaded[i][2]]) THEN fail
     ELSE IF loaded = <<>> THEN fail
     ELSE LET sample_rate == fs[loaded[1][2]].rate
              max_length ==
                Max({ResampledFrames(fs[loaded[i][2]], sample_rate) :
                       i \in 1..Len(loaded)})
              level == Max({fs[loaded[i][2]].rms : i \in 1..Len(loaded)})
          IN IF max_length = 0 THEN fail
             ELSE [ok |-> TRUE,
                   fs |-> [fs EXCEPT ![output_path] =
                             Wav(max_length, sample_rate, level)]]

(***************************************************************************)
(* mastering.py                                                            *)
(***************************************************************************)
\* what ffmpeg writes for '-ar 44100 -ac 2' and a filter that keeps the level
FfmpegFiltered(f) == Wav(ResampledFrames(f, SampleRate), SampleRate, f.rms)

\* what ffmpeg writes for loudnorm=I=-14: a non-silent input is brought to
\* the target level
FfmpegLoudnorm(f) ==
  Wav(ResampledFrames(f, SampleRate), SampleRate,
      IF f.rms = RmsZero THEN RmsZero ELSE MasteredRmsDb10)

\* the mastering stages in the order the chain runs them
MasterStages == <<"eq", "comp", "limit">>

\* what the three ffmpeg runs of the chain do: the first stage that fails
\* (0: none) and how (CalledProcessError: ffmpeg exited nonzero; Exception:
\* anything else, such as ffmpeg not being installed)
MasterOutcomes ==
  {[fail_at |-> 0, kind |-> "none"]}
  \cup {[fail_at |-> s, kind |-> k] :
          s \in 1..3, k \in {"CalledProcessError", "Exception"}}

\* apply_mastering_chain: EQ into temp_eq, compressor into temp_comp,
\* loudnorm + limiter into output_wav; the first failing stage ends the
\* chain.  The two temporary files are removed on success and on
\* CalledProcessError, and left behind on any other exception.
apply_mastering_chain(fs, temp_eq, temp_comp, input_wav, output_wav, o) ==
  LET fs0 == [fs EXCEPT ![temp_eq] = ZeroBytes, ![temp_comp] = ZeroBytes]
      bad1 == o.fail_at = 1 \/ ~IsWav(fs0[input_wav])
      fs1 == IF bad1 THEN fs0
             ELSE [fs0 EXCEPT ![temp_eq] = FfmpegFiltered(fs0[input_wav])]
      bad2 == bad1 \/ o.fail_at = 2
      fs2 == IF bad2 THEN fs1
             ELSE [fs1 EXCEPT ![temp_comp] = FfmpegFiltered(fs1[temp_eq])]
      bad3 == bad2 \/ o.fail_at = 3
      fs3 == IF bad3 THEN fs2
             ELSE [fs2 EXCEPT ![output_wav] = FfmpegLoudnorm(fs2[temp_comp])]
      failed_at == IF bad1 THEN 1 ELSE IF bad2 THEN 2 ELSE IF bad3 THEN 3 ELSE 0
      cleaned == [fs3 EXCEPT ![temp_eq] = NoFile, ![temp_comp] = NoFile]
  IN [ok |-> ~bad3,
      failed_at |-> failed_at,
      stages |-> SubSeq(MasterStages, 1, IF failed_at = 0 THEN 3 ELSE failed_at),
      fs |-> IF bad3 /\ o.kind = "Exception" THEN fs3 ELSE cleaned]

\* apply_simple_limiter: alimiter into output_wav; any failure gives False
\* (ffmpeg_ok: ffmpeg ran and exited 0)
apply_simple_limiter(fs, input_wav, output_wav, ffmpeg_ok) ==
  IF ffmpeg_ok /\ IsWav(fs[input_wav])
  THEN [ok |-> TRUE, fs |-> [fs EXCEPT ![output_wav] = FfmpegFiltered(fs[input_wav])]]
  ELSE [ok |-> FALSE, fs |-> fs]

(***************************************************************************)
(* app.py: module state and requests                                       *)
(***************************************************************************)
\* a Python call is accepted when every keyword names a parameter of the
\* callee and every parameter without a default is supplied; otherwise it
\* raises TypeError
CallAccepted(params, required, positional, keywords) ==
  /\ keywords \subseteq params
  /\ required \subseteq (positional \cup keywords)

\* DrumSampler(kits_dir=..., samples_dir=...) against
\* DrumSampler.__init__(self, kit_name, assets_dir=None, samplerate=44100)
DrumSamplerConstructed ==
  CallAccepted({"kit_name", "assets_dir", "samplerate"}, {"kit_name"},
               {}, {"kits_dir", "samples_dir"})

\* FXPlayer(fx_config_path=..., assets_dir=...) against
\* FXPlayer.__init__(self, fx_config_path, assets_dir, sample_rate=44100)
FXPlayerConstructed ==
  CallAccepted({"fx_config_path", "assets_dir", "sample_rate"},
               {"fx_config_path", "assets_dir"},
               {}, {"fx_config_path", "assets_dir"})

\* drum_sampler.render_midi(midi_path, drums_wav, kit_name=kit_name) against
\* render_midi(self, midi_path, output_path, duration_seconds=None)
RenderMidiCallAccepted ==
  CallAccepted({"midi_path", "output_path", "duration_seconds"},
               {"midi_path", "output_path"},
               {"midi_path", "output_path"}, {"kit_name"})

\* the attributes of a MixPreset object
MixPresetAttrs == {"name", "drum_kit", "target_lufs", "bus", "instruments"}

\* the request a client did not fill in (request.get_json() is empty)
NoData ==
  [has_data |-> FALSE, midi_path |-> "None", stems_midi |-> <<>>,
   output_path |-> NoPath, apply_mastering |-> TRUE,
   use_sample_drums |-> TRUE, render_fx |-> TRUE]

\* the requests of client r: midi_path given or not; stems_midi, one entry
\* per stem (named StemNames[i]) telling whether its MIDI file exists;
\* output_path absent or with either extension; the three flags
Requests(r) ==
  {NoData} \cup
  [has_data : {TRUE},
   midi_path : {"None", "midi"},
   stems_midi : UNION {[1..n -> BOOLEAN] : n \in 0..MaxStems},
   output_path : {NoPath} \cup {OutputPath(r, e) : e \in Extensions},
   apply_mastering : BOOLEAN,
   use_sample_drums : BOOLEAN,
   render_fx : BOOLEAN]

\* the requests of the two-client runs: one stem or the composite MIDI
ConcurrentRequests(r) ==
  [has_data : {TRUE},
   midi_path : {"None", "midi"},
   stems_midi : {<<TRUE>>},
   output_path : {OutputPath(r, ".wav")},
   apply_mastering : {FALSE},
   use_sample_drums : {FALSE},
   render_fx : {TRUE}]

NoResponse ==
  [status |-> "none", code |-> 0, message |-> "", stems_count |-> 0,
   sample_drums |-> FALSE, fx_rendered |-> FALSE, mastering_applied |-> FALSE,
   validation_passed |-> FALSE, validation_error |-> "None"]

ErrorResponse(code, message) ==
  [NoResponse EXCEPT !.status = "error", !.code = code, !.message = message]

NoCalls ==
  [drum_sample |-> 0, drum_engine |-> 0,
   fx |-> "none",
   mix |-> 0, mix_ok |-> "unset", loaded |-> {}, missing |-> {},
   stages |-> <<>>, failed_at |-> 0, limiter |-> <<>>, limiter_ok |-> "unset",
   fallback |-> 0]

VARIABLES
  drum_sampler,    \* app.drum_sampler: "None" or the sampler
  fx_player,       \* app.fx_player: "None" or the player
  files,           \* the file system: path -> file
  req,             \* the JSON body of each request
  pc,              \* where each request is in produce
  mix_preset,      \* produce's mix_preset: "None" or the loaded preset
  stem_wavs,       \* produce's stem_wavs, as <<name, path>> in insertion order
  temp_stems,      \* produce's temp_stems
  master_success,  \* produce's master_success: "unset", "True", "False"
  calls,           \* history: the calls each request has made
  resp,            \* the response of each request
  fn_args,         \* the arguments of a library function called on its own
  fn_result        \* what that call returned (<<>>: not called yet)

vars == <<drum_sampler, fx_player, files, req, pc, mix_preset, stem_wavs,
          temp_stems, master_success, calls, resp, fn_args, fn_result>>

\* the module is imported: both constructors run inside try/except, a
\* failure leaves the global at None
InitModule ==
  /\ drum_sampler \in (IF DrumSamplerConstructed THEN {"DrumSampler", "None"}
                       ELSE {"None"})
  /\ fx_player \in (IF FXPlayerConstructed THEN {"FXPlayer", "None"}
                    ELSE {"None"})
  /\ files = [p \in AllPaths |-> NoFile]
  /\ mix_preset = [r \in Reqs |-> "None"]
  /\ stem_wavs = [r \in Reqs |-> <<>>]
  /\ temp_stems = [r \in Reqs |-> {}]
  /\ master_success = [r \in Reqs |-> "unset"]
  /\ calls = [r \in Reqs |-> NoCalls]
  /\ resp = [r \in Reqs |-> NoResponse]

\* no library function is called outside produce
NoCall == fn_args = <<>> /\ fn_result = <<>>

\* one request is served
Init ==
  /\ InitModule
  /\ NoCall
  /\ \E q \in Requests(1) : req = [r \in Reqs |-> IF r = 1 THEN q ELSE NoData]
  /\ pc = [r \in Reqs |-> IF r = 1 THEN "render" ELSE "absent"]

\* two requests are served at once by the threads of one process
InitConcurrent ==
  /\ InitModule
  /\ NoCall
  /\ \E q1 \in ConcurrentRequests(1), q2 \in ConcurrentRequests(2) :
        req = [r \in Reqs |-> IF r = 1 THEN q1 ELSE q2]
  /\ pc = [r \in Reqs |-> "render"]

\* the request returns its response
End(r, response) ==
  /\ pc' = [pc EXCEPT ![r] = "done"]
  /\ resp' = [resp EXCEPT ![r] = response]

Names(stems) == {stems[i][1] : i \in 1..Len(stems)}

(***************************************************************************)
(* app.py: produce, step 1 (parse, load the preset, render the stems)      *)
(***************************************************************************)
\* the sample drums of lines 210-235: the sample renderer, and the external
\* renderer on the same MIDI when the sample renderer raises
RenderDrums(st, r, q, sampler, sample_ok, o) ==
  IF q.use_sample_drums /\ sampler # "None" /\ q.midi_path # "None"
  THEN LET drums_wav == TempStem(r, "drums")
           st1 == [st EXCEPT !.temp_stems = @ \cup {drums_wav},
                             !.drum_sample = @ + 1]
       IN IF RenderMidiCallAccepted /\ sample_ok
          THEN [st1 EXCEPT !.fs = [@ EXCEPT ![drums_wav] = GoodAudio],
                           !.stem_wavs = Append(@, <<"drums", drums_wav>>)]
          ELSE LET res == render_midi_to_wav(st1.fs, drums_wav, o)
               IN [st1 EXCEPT !.fs = res.fs,
                              !.drum_engine = @ + 1,
                              !.stem_wavs = IF res.ok
                                            THEN Append(@, <<"drums", drums_wav>>)
                                            ELSE @]
  ELSE st

\* the loop of lines 239-251 from entry i on: a stem whose MIDI is missing
\* is skipped, a stem whose render fails is not added to stem_wavs
RECURSIVE RenderStems(_, _, _, _, _)
RenderStems(st, r, stems_midi, outs, i) ==
  IF i > Len(stems_midi) THEN st
  ELSE IF ~stems_midi[i] THEN RenderStems(st, r, stems_midi, outs, i + 1)
  ELSE LET temp_wav == TempStem(r, StemNames[i])
           res == render_midi_to_wav(st.fs, temp_wav, outs[i])
           st1 == [st EXCEPT !.temp_stems = @ \cup {temp_wav},
                             !.fs = res.fs,
                             !.stem_wavs = IF res.ok
                                           THEN Append(@, <<StemNames[i], temp_wav>>)
                                           ELSE @]
       IN RenderStems(st1, r, stems_midi, outs, i + 1)

\* lines 238-260: the stems of the mapping, or else the whole MIDI
RenderOthers(st, r, q, outs, o) ==
  IF Len(q.stems_midi) > 0 THEN RenderStems(st, r, q.stems_midi, outs, 1)
  ELSE IF q.midi_path # "None" /\ ~q.use_sample_drums
  THEN LET full_wav == TempStem(r, "full")
           res == render_midi_to_wav(st.fs, full_wav, o)
       IN [st EXCEPT !.temp_stems = @ \cup {full_wav},
                     !.fs = res.fs,
                     !.stem_wavs = IF res.ok THEN Append(@, <<"full", full_wav>>)
                                   ELSE @]
  ELSE st

\* the renderer runs that matter for a request (one fixed outcome stands for
\* a run that does not happen)
NotRun == [rc0 |-> FALSE, written |-> <<>>]
RunsIf(cond) == IF cond THEN RenderOutcomes ELSE {NotRun}
StemRuns(q) ==
  {outs \in [1..Len(q.stems_midi) -> RenderOutcomes] :
     \A i \in 1..Len(q.stems_midi) : ~q.stems_midi[i] => outs[i] = NotRun}

ProduceRender(r) ==
  /\ pc[r] = "render"
  /\ UNCHANGED <<fn_args, fn_result, drum_sampler, fx_player, req, master_success>>
  /\ LET q == req[r]
     IN IF ~q.has_data
        THEN /\ End(r, ErrorResponse(400, "No JSON data"))
             /\ UNCHANGED <<files, mix_preset, stem_wavs, temp_stems, calls>>
        ELSE IF q.output_path = NoPath
        THEN /\ End(r, ErrorResponse(400, "Missing output_path"))
             /\ UNCHANGED <<files, mix_preset, stem_wavs, temp_stems, calls>>
        ELSE IF q.midi_path = "None" /\ Len(q.stems_midi) = 0
        THEN /\ End(r, ErrorResponse(400, "Need midi_path or stems"))
             /\ UNCHANGED <<files, mix_preset, stem_wavs, temp_stems, calls>>
        ELSE \E preset \in {"None", "MixPreset"},
                sample_ok \in BOOLEAN,
                dOut \in RunsIf(q.use_sample_drums /\ drum_sampler # "None"
                                /\ q.midi_path # "None"),
                outs \in StemRuns(q),
                fOut \in RunsIf(Len(q.stems_midi) = 0 /\ ~q.use_sample_drums) :
          LET st0 == [fs |-> files, stem_wavs |-> <<>>, temp_stems |-> {},
                      drum_sample |-> 0, drum_engine |-> 0]
              st1 == RenderDrums(st0, r, q, drum_sampler, sample_ok, dOut)
              st2 == RenderOthers(st1, r, q, outs, fOut)
          IN /\ mix_preset' = [mix_preset EXCEPT ![r] = preset]
             /\ files' = st2.fs
             /\ stem_wavs' = [stem_wavs EXCEPT ![r] = st2.stem_wavs]
             /\ temp_stems' = [temp_stems EXCEPT ![r] = st2.temp_stems]
             /\ calls' = [calls EXCEPT ![r].drum_sample = st2.drum_sample,
                                       ![r].drum_engine = st2.drum_engine]
             /\ IF st2.stem_wavs = <<>>
                THEN End(r, ErrorResponse(500, "No stems rendered"))
                ELSE pc' = [pc EXCEPT ![r] = "fx"] /\ UNCHANGED resp

(***************************************************************************)
(* produce, step 2 (FX stem, lines 265-281)                                *)
(***************************************************************************)
\* what the FX step does: whether mido could read the MIDI, what
\* render_fx_stem returned and what it wrote (a stem without FX events is
\* silent; on an exception it returns False and writes nothing)
FxOutcomes ==
  {[midi_ok |-> FALSE, ok |-> FALSE, written |-> <<>>],
   [midi_ok |-> TRUE, ok |-> FALSE, written |-> <<>>],
   [midi_ok |-> TRUE, ok |-> TRUE, written |-> <<GoodAudio>>],
   [midi_ok |-> TRUE, ok |-> TRUE, written |-> <<SilentAudio>>]}

\* FXPlayer.render_fx_stem
render_fx_stem(fs, output_path, o) ==
  [ok |-> o.ok,
   fs |-> IF o.written = <<>> THEN fs
          ELSE [fs EXCEPT ![output_path] = o.written[1]]]

ProduceFx(r) ==
  /\ pc[r] = "fx"
  /\ pc' = [pc EXCEPT ![r] = "mix"]
  /\ UNCHANGED <<fn_args, fn_result, drum_sampler, fx_player, req, mix_preset, master_success, resp>>
  /\ LET q == req[r]
         fx_wav == TempStem(r, "fx")
     IN IF q.render_fx /\ fx_player # "None" /\ q.midi_path # "None"
        THEN \E o \in FxOutcomes :
               /\ temp_stems' = [temp_stems EXCEPT ![r] = @ \cup {fx_wav}]
               /\ IF ~o.midi_ok
                  THEN /\ calls' = [calls EXCEPT ![r].fx = "raised"]
                       /\ UNCHANGED <<files, stem_wavs>>
                  ELSE LET res == render_fx_stem(files, fx_wav, o)
                       IN /\ files' = res.fs
                          /\ calls' = [calls EXCEPT ![r].fx =
                                         IF res.ok THEN "True" ELSE "False"]
                          /\ stem_wavs' = [stem_wavs EXCEPT ![r] =
                                             Append(@, <<"fx", fx_wav>>)]
        ELSE UNCHANGED <<files, stem_wavs, temp_stems, calls>>

(***************************************************************************)
(* produce, step 3 (mix, lines 299-327)                                    *)
(***************************************************************************)
ProduceMix(r) ==
  /\ pc[r] = "mix"
  /\ UNCHANGED <<fn_args, fn_result, drum_sampler, fx_player, req, mix_preset, stem_wavs,
                 temp_stems, master_success>>
  /\ LET temp_mixed == TmpMixed(r)
         fs0 == [files EXCEPT ![temp_mixed] = ZeroBytes]
     IN IF mix_preset[r] # "None" /\ "buses" \notin MixPresetAttrs
        THEN \* mix_preset.buses raises AttributeError
             /\ files' = fs0
             /\ UNCHANGED calls
             /\ End(r, ErrorResponse(500, "AttributeError: buses"))
        ELSE LET res == mix_stems(fs0, stem_wavs[r], temp_mixed)
             IN /\ files' = res.fs
                /\ calls' = [calls EXCEPT
                     ![r].mix = @ + 1,
                     ![r].mix_ok = IF res.ok THEN "True" ELSE "False",
                     ![r].loaded = Names(LoadedStems(fs0, stem_wavs[r])),
                     ![r].missing = Names(stem_wavs[r])
                                    \ Names(LoadedStems(fs0, stem_wavs[r]))]
                /\ IF res.ok
                   THEN pc' = [pc EXCEPT ![r] = "master"] /\ UNCHANGED resp
                   ELSE End(r, ErrorResponse(500, "Mixing failed"))

(***************************************************************************)
(* produce, step 4 (mastering or limiter, lines 359-369)                   *)
(***************************************************************************)
\* what the step leaves: the files, master_success, and for the history the
\* stages run, the failing stage, the limiter's input and result
MasterResult(m, l, input) ==
  [fs |-> l.fs, master_success |-> "False", stages |-> m.stages,
   failed_at |-> m.failed_at, limiter |-> <<input>>,
   limiter_ok |-> IF l.ok THEN "True" ELSE "False"]

\* the limiter fallback reads the compressor's intermediate file
MasterOrLimit_intermediate(fs, r, apply_mastering, temp_mixed, output_path, mo, lo) ==
  IF apply_mastering
  THEN LET m == apply_mastering_chain(fs, TempEq(r), TempComp(r),
                                      temp_mixed, output_path, mo)
       IN IF m.ok
          THEN [fs |-> m.fs, master_success |-> "True", stages |-> m.stages,
                failed_at |-> 0, limiter |-> <<>>, limiter_ok |-> "unset"]
          ELSE MasterResult(m, apply_simple_limiter(m.fs, TempComp(r),
                                                    output_path, lo), TempComp(r))
  ELSE LET l == apply_simple_limiter(fs, temp_mixed, output_path, lo)
       IN [fs |-> l.fs, master_success |-> "unset", stages |-> <<>>,
           failed_at |-> 0, limiter |-> <<temp_mixed>>,
           limiter_ok |-> IF l.ok THEN "True" ELSE "False"]

\* lines 359-369: the mastering chain, and the simple limiter on the mixed
\* file when the chain fails or mastering was not asked for; the limiter's
\* result is not looked at
MasterOrLimit(fs, r, apply_mastering, temp_mixed, output_path, mo, lo) ==
  IF apply_mastering
  THEN LET m == apply_mastering_chain(fs, TempEq(r), TempComp(r),
                                      temp_mixed, output_path, mo)
       IN IF m.ok
          THEN [fs |-> m.fs, master_success |-> "True", stages |-> m.stages,
                failed_at |-> 0, limiter |-> <<>>, limiter_ok |-> "unset"]
          ELSE MasterResult(m, apply_simple_limiter(m.fs, temp_mixed,
                                                    output_path, lo), temp_mixed)
  ELSE LET l == apply_simple_limiter(fs, temp_mixed, output_path, lo)
       IN [fs |-> l.fs, master_success |-> "unset", stages |-> <<>>,
           failed_at |-> 0, limiter |-> <<temp_mixed>>,
           limiter_ok |-> IF l.ok THEN "True" ELSE "False"]

ProduceMaster(r) ==
  /\ pc[r] = "master"
  /\ pc' = [pc EXCEPT ![r] = "finish"]
  /\ UNCHANGED <<fn_args, fn_result, drum_sampler, fx_player, req, mix_preset, stem_wavs,
                 temp_stems, resp>>
  /\ \E mo \in (IF req[r].apply_mastering THEN MasterOutcomes
                ELSE {[fail_at |-> 0, kind |-> "none"]}),
        lo \in BOOLEAN :
       LET m == MasterOrLimit(files, r, req[r].apply_mastering, TmpMixed(r),
                              req[r].output_path, mo, lo)
       IN /\ files' = m.fs
          /\ master_success' = [master_success EXCEPT ![r] = m.master_success]
          /\ calls' = [calls EXCEPT ![r].stages = m.stages,
                                    ![r].failed_at = m.failed_at,
                                    ![r].limiter = m.limiter,
                                    ![r].limiter_ok = m.limiter_ok]

(***************************************************************************)
(* produce, step 5 (cleanup and measuring, lines 396-414)                  *)
(***************************************************************************)
\* os.remove of every path of the set that exists
RemoveAll(fs, paths) == [p \in DOMAIN fs |-> IF p \in paths THEN NoFile ELSE fs[p]]

ProduceFinish(r) ==
  /\ pc[r] = "finish"
  /\ UNCHANGED <<fn_args, fn_result, drum_sampler, fx_player, req, mix_preset, stem_wavs,
                 temp_stems, master_success, calls>>
  /\ LET fs1 == RemoveAll(files, temp_stems[r] \cup {TmpMixed(r)})
         out == fs1[req[r].output_path]
     IN /\ files' = fs1
        /\ IF ~out.exists
           THEN \* os.path.getsize(output_path) raises
                End(r, ErrorResponse(500, "FileNotFoundError"))
           ELSE IF ~IsWav(out)
           THEN \* wave.open(output_path) raises
                End(r, ErrorResponse(500, "wave.Error"))
           ELSE pc' = [pc EXCEPT ![r] = "validate"] /\ UNCHANGED resp

(***************************************************************************)
(* produce, step 6 (validation, fallback audio, response, lines 416-466)   *)
(***************************************************************************)
SuccessResponse(q, stems, is_valid, validation_error) ==
  [status |-> "success", code |-> 200, message |-> "",
   stems_count |-> Len(stems),
   sample_drums |-> q.use_sample_drums /\ "drums" \in Names(stems),
   fx_rendered |-> "fx" \in Names(stems),
   mastering_applied |-> q.apply_mastering,
   validation_passed |-> is_valid,
   validation_error |-> IF is_valid THEN "None" ELSE validation_error]

ProduceValidate(r) ==
  /\ pc[r] = "validate"
  /\ UNCHANGED <<fn_args, fn_result, drum_sampler, fx_player, req, mix_preset, stem_wavs,
                 temp_stems, master_success>>
  /\ LET q == req[r]
         v == validate_audio_file(files[q.output_path], MinDurationMs, MinRmsDb10)
         fallback_path == StrReplaceWav(q.output_path)
         fs1 == create_fallback_audio(files, fallback_path,
                                      FallbackDurationMs, SampleRate)
     IN IF v[1]
        THEN /\ UNCHANGED <<files, calls>>
             /\ End(r, SuccessResponse(q, stem_wavs[r], TRUE, v[2]))
        ELSE /\ calls' = [calls EXCEPT ![r].fallback = @ + 1]
             /\ IF fallback_path = q.output_path
                THEN \* shutil.copy(fallback_path, output_path) raises
                     /\ files' = fs1
                     /\ End(r, ErrorResponse(500, "SameFileError"))
                ELSE /\ files' = [fs1 EXCEPT ![q.output_path] = fs1[fallback_path]]
                     /\ End(r, SuccessResponse(q, stem_wavs[r], FALSE, v[2]))

(***************************************************************************)
(* Specifications                                                          *)
(***************************************************************************)
Next ==
  \E r \in Reqs :
    \/ ProduceRender(r)
    \/ ProduceFx(r)
    \/ ProduceMix(r)
    \/ ProduceMaster(r)
    \/ ProduceFinish(r)
    \/ ProduceValidate(r)

\* one request at a time
Spec == Init /\ [][Next]_vars

\* two requests in the threads of one process
SpecConcurrent == InitConcurrent /\ [][Next]_vars

TypeOK ==
  /\ pc \in [Reqs -> {"absent", "render", "fx", "mix", "master", "finish",
                      "validate", "done"}]
  /\ \A r \in Reqs : resp[r].status \in {"none", "success", "error"}

(***************************************************************************)
(* stem_mixer.py: sidechain envelopes                                      *)
(***************************************************************************)
\* the produce variables while no request is served
Idle ==
  /\ drum_sampler = "None"
  /\ fx_player = "None"
  /\ files = [p \in AllPaths |-> NoFile]
  /\ req = [r \in Reqs |-> NoData]
  /\ pc = [r \in Reqs |-> "absent"]
  /\ mix_preset = [r \in Reqs |-> "None"]
  /\ stem_wavs = [r \in Reqs |-> <<>>]
  /\ temp_stems = [r \in Reqs |-> {}]
  /\ master_success = [r \in Reqs |-> "unset"]
  /\ calls = [r \in Reqs |-> NoCalls]
  /\ resp = [r \in Reqs |-> NoResponse]

produce_vars == <<drum_sampler, fx_player, files, req, pc, mix_preset,
                  stem_wavs, temp_stems, master_success, calls, resp>>

Min(S) == CHOOSE x \in S : \A y \in S : x <= y

\* int((ms / 1000.0) * sample_rate)
Samples(ms, sample_rate) == (ms * sample_rate) \div 1000

NonZero(n) == IF n = 0 THEN 1 ELSE n

\* Envelope values are exact fractions: a sidechain amount is a number of
\* AmountDen-ths, and an envelope value v stands for v / EnvOne(a, r), a and
\* r being the attack and release lengths in samples.
EnvOne(a, r) == AmountDen * NonZero(a) * NonZero(r)

\* the attack phase ducks at once instead of ramping down
DuckCurve_no_attack(i, amount, a, h, r) ==
  IF i < a + h THEN EnvOne(a, r) - amount * NonZero(a) * NonZero(r)
  ELSE EnvOne(a, r) - amount * (r - (i - a - h)) * NonZero(a)

\* the value one kick's curve has i samples after its start: the linear
\* ramp 1 - (i / attack_samples) * amount, the hold at 1 - amount, the
\* release 1 - amount * (1 - j / release_samples)
DuckCurve(i, amount, a, h, r) ==
  IF i < a THEN EnvOne(a, r) - i * amount * NonZero(r)
  ELSE IF i < a + h THEN EnvOne(a, r) - amount * NonZero(a) * NonZero(r)
  ELSE EnvOne(a, r) - amount * (r - (i - a - h)) * NonZero(a)

\* overlapping curves are multiplied instead of taking the smaller value
DuckKick_product(envelope, start_sample, amount, a, h, r) ==
  [idx \in 1..Len(envelope) |->
     LET i == (idx - 1) - start_sample
     IN IF i >= 0 /\ i < a + h + r
        THEN (envelope[idx] * DuckCurve(i, amount, a, h, r)) \div EnvOne(a, r)
        ELSE envelope[idx]]

\* the three loops of one kick: every sample of the curve that lies inside
\* the envelope is lowered to the curve's value if that is smaller
DuckKick(envelope, start_sample, amount, a, h, r) ==
  [idx \in 1..Len(envelope) |->
     LET i == (idx - 1) - start_sample
     IN IF i >= 0 /\ i < a + h + r
        THEN Min({envelope[idx], DuckCurve(i, amount, a, h, r)})
        ELSE envelope[idx]]

\* the loop over kick_times; a kick that starts at or after the end of the
\* envelope is skipped
RECURSIVE DuckKicks(_, _, _, _, _, _, _)
DuckKicks(envelope, kick_times, sample_rate, amount, a, h, r) ==
  IF kick_times = <<>> THEN envelope
  ELSE LET start_sample == (Head(kick_times) * sample_rate) \div 1000
           next == IF start_sample >= Len(envelope) THEN envelope
                   ELSE DuckKick(envelope, start_sample, amount, a, h, r)
       IN DuckKicks(next, Tail(kick_times), sample_rate, amount, a, h, r)

\* create_sidechain_envelope_from_midi; kick_times is what
\* parse_kick_events_from_midi returned, in milliseconds
create_sidechain_envelope_from_midi(kick_times, duration_ms, sample_rate, sidechain_amount, attack_ms, hold_ms, release_ms) ==
  LET total_samples == Samples(duration_ms, sample_rate)
      a == Samples(attack_ms, sample_rate)
      h == Samples(hold_ms, sample_rate)
      r == Samples(release_ms, sample_rate)
      ones == [idx \in 1..total_samples |-> EnvOne(a, r)]
  IN [one |-> EnvOne(a, r),
      env |-> DuckKicks(ones, kick_times, sample_rate, sidechain_amount,
                        a, h, r)]

\* what gaussian_filter1d can return for a non-negative input: non-negative
\* values; a weighted mean of the input, so within its range
Smoothings(envelope, resampled) ==
  {sm \in [1..Len(envelope) -> 0..MaxAmp] :
     resampled \/ \A i \in 1..Len(envelope) :
        /\ sm[i] >= Min({envelope[j] : j \in 1..Len(envelope)})
        /\ sm[i] <= Max({envelope[j] : j \in 1..Len(envelope)})}

\* np.tile(envelope, repeats)[:total_samples], or envelope[:total_samples]
TileTo(envelope, total_samples) ==
  [idx \in 1..total_samples |-> envelope[((idx - 1) % Len(envelope)) + 1]]

\* the length of the kick's mono signal after the optional resample
KickLength(kick, sample_rate) ==
  IF kick.rate = sample_rate THEN Len(kick.data)
  ELSE (Len(kick.data) * sample_rate) \div kick.rate

\* create_kick_envelope: kick is <<>> when the kick stem cannot be loaded,
\* else <<[rate, data]>> with data the absolute mono signal; smoothed is
\* what gaussian_filter1d returned.  The curve is 1 - 0.6 * e / max(e); any
\* exception (no file, an empty signal) gives the flat envelope of ones.
create_kick_envelope(kick, sample_rate, total_samples, smoothed) ==
  LET flat == [one |-> AmountDen, env |-> [idx \in 1..total_samples |-> AmountDen]]
  IN IF kick = <<>> THEN flat
     ELSE IF KickLength(kick[1], sample_rate) = 0 \/ total_samples = 0 THEN flat
     ELSE LET peak == Max({smoothed[i] : i \in 1..total_samples})
          IN IF peak = 0 THEN flat
             ELSE [one |-> AmountDen * peak,
                   env |-> [idx \in 1..total_samples |->
                              AmountDen * peak - SidechainDepth * smoothed[idx]]]

\* apply_sidechain, lines 246-252: the envelope cut or padded ('edge': its
\* last value repeated) to the length of the audio; this is the multiplier
\* of each audio frame.  Padding an empty envelope raises (<<>>, "raised").
FitEnvelope(kick_envelope, n) ==
  IF Len(kick_envelope) >= n THEN SubSeq(kick_envelope, 1, n)
  ELSE [idx \in 1..n |-> IF idx <= Len(kick_envelope) THEN kick_envelope[idx]
                         ELSE kick_envelope[Len(kick_envelope)]]

\* the calls of create_sidechain_envelope_from_midi: kick times and lengths
\* in milliseconds; audio_len is the length of the stem the envelope is then
\* applied to
MidiEnvelopeCalls ==
  [fn : {"create_sidechain_envelope_from_midi"},
   kick_times : UNION {[1..n -> 0..(MaxDurationMs - 1)] : n \in 0..MaxKicks},
   duration_ms : {MaxDurationMs \div 2, MaxDurationMs},
   sample_rate : {500, 1000},
   sidechain_amount : {0, 6, AmountDen},
   attack_ms : {0, 2}, hold_ms : {0, 1}, release_ms : {0, 3},
   audio_extra : {0}]

\* kicks on every beat at 120 BPM for two seconds, the default attack, hold
\* and release, at a rate of 200 frames per second
FourOnTheFloor ==
  [fn |-> "create_sidechain_envelope_from_midi",
   kick_times |-> <<0, 500, 1000, 1500>>,
   duration_ms |-> 2000, sample_rate |-> 200, sidechain_amount |-> 6,
   attack_ms |-> AttackMs, hold_ms |-> HoldMs, release_ms |-> ReleaseMs,
   audio_extra |-> 1]

\* the calls of create_kick_envelope
KickEnvelopeCalls ==
  {c \in [fn : {"create_kick_envelope"},
          kick : {<<>>} \cup
                 {<<[rate |-> rt, data |-> d]>> :
                    rt \in {1000, 2000},
                    d \in UNION {[1..n -> 0..MaxAmp] : n \in 0..2}},
          sample_rate : {1000},
          total_samples : 0..3,
          smoothed : UNION {[1..n -> 0..MaxAmp] : n \in 0..3}] :
     /\ Len(c.smoothed) = c.total_samples
     /\ c.kick # <<>> /\ KickLength(c.kick[1], c.sample_rate) > 0
        => c.smoothed \in Smoothings(TileTo(c.kick[1].data, c.total_samples),
                                     c.kick[1].rate # c.sample_rate)}

InitSidechain ==
  /\ Idle
  /\ fn_args \in MidiEnvelopeCalls \cup {FourOnTheFloor} \cup KickEnvelopeCalls
  /\ fn_result = <<>>

CallEnvelopeFromMidi ==
  /\ fn_args.fn = "create_sidechain_envelope_from_midi"
  /\ fn_result = <<>>
  /\ LET e == create_sidechain_envelope_from_midi(
                fn_args.kick_times, fn_args.duration_ms, fn_args.sample_rate,
                fn_args.sidechain_amount, fn_args.attack_ms, fn_args.hold_ms,
                fn_args.release_ms)
         n == Len(e.env) + fn_args.audio_extra
     IN fn_result' = [one |-> e.one, env |-> e.env,
                      multiplier |-> IF e.env = <<>> /\ n > 0 THEN <<>>
                                     ELSE FitEnvelope(e.env, n)]
  /\ UNCHANGED <<fn_args, produce_vars>>

CallKickEnvelope ==
  /\ fn_args.fn = "create_kick_envelope"
  /\ fn_result = <<>>
  /\ LET e == create_kick_envelope(fn_args.kick, fn_args.sample_rate,
                                   fn_args.total_samples, fn_args.smoothed)
     IN fn_result' = [one |-> e.one, env |-> e.env, multiplier |-> e.env]
  /\ UNCHANGED <<fn_args, produce_vars>>

NextSidechain == CallEnvelopeFromMidi \/ CallKickEnvelope

\* the two envelope functions called on their own
SpecSidechain == InitSidechain /\ [][NextSidechain]_vars

(***************************************************************************)
(* stem_mixer.py: mix_stems on sample buffers                              *)
(***************************************************************************)
\* A sample value v stands for v / MaxAmp (MaxAmp is full scale, 1.0); a
\* gain is a number of tenths.  Both channels of a stem carry the same
\* signal here.
Abs(x) == IF x < 0 THEN -x ELSE x

\* default_gains, and the gain of stems it does not name
DefaultGains ==
  [kick |-> 10, snare |-> 8, hihat |-> 5, bass |-> 9, lead |-> 7, pad |-> 4,
   arp |-> 6, fx |-> 3]

\* default_gains.update(stem_gains), then default_gains.get(name, 0.7)
Gain(name, stem_gains) ==
  IF name \in DOMAIN stem_gains THEN stem_gains[name]
  ELSE IF name \in DOMAIN DefaultGains THEN DefaultGains[name]
  ELSE 7

\* the load loop: the rate of the first stem becomes the rate of the mix; a
\* stem of another rate is resampled to int(len * sample_rate / rate) frames
\* (resampled[i]: what scipy.signal.resample returned for stem i)
LoadedData(stems, resampled) ==
  [i \in 1..Len(stems) |->
     IF stems[i].rate = stems[1].rate THEN stems[i].data ELSE resampled[i]]

\* the lengths scipy.signal.resample is asked for
ResampledLength(stems, i) ==
  (Len(stems[i].data) * stems[1].rate) \div stems[i].rate

\* what scipy.signal.resample can return for the stems from i on: for each
\* stem of another rate a buffer of the new length (<<>> for the others)
RECURSIVE Resamplings(_, _)
Resamplings(stems, i) ==
  IF i > Len(stems) THEN {<<>>}
  ELSE {<<d>> \o rest :
          d \in (IF stems[i].rate = stems[1].rate THEN {<<>>}
                 ELSE [1..ResampledLength(stems, i) -> {-MaxAmp, 0, MaxAmp}]),
          rest \in Resamplings(stems, i + 1)}

\* the envelope is applied to every stem, sidechain target or not
RECURSIVE Summed_every_stem(_, _, _, _, _, _, _)
Summed_every_stem(stems, data, n, idx, stem_gains, apply_sidechain_to, env) ==
  IF n = 0 THEN 0
  ELSE Summed_every_stem(stems, data, n - 1, idx, stem_gains, apply_sidechain_to, env)
       + (IF idx <= Len(data[n]) THEN data[n][idx] ELSE 0)
         * Gain(stems[n].name, stem_gains)
         * (IF env.env # <<>> THEN env.env[idx] ELSE env.one)

\* the sum of the first n stems at frame idx, as a number of
\* 1 / (MaxAmp * 10 * env.one): each stem padded, multiplied by its gain
\* and, if it is a sidechain target and there is an envelope, by the envelope
RECURSIVE Summed(_, _, _, _, _, _, _)
Summed(stems, data, n, idx, stem_gains, apply_sidechain_to, env) ==
  IF n = 0 THEN 0
  ELSE Summed(stems, data, n - 1, idx, stem_gains, apply_sidechain_to, env)
       + (IF idx <= Len(data[n]) THEN data[n][idx] ELSE 0)
         * Gain(stems[n].name, stem_gains)
         * (IF env.env # <<>> /\ stems[n].name \in apply_sidechain_to
            THEN env.env[idx] ELSE env.one)

\* fractions are kept in lowest terms: den and every number of data divided
\* by their greatest common divisor
RECURSIVE GCD(_, _)
GCD(a, b) == IF b = 0 THEN a ELSE GCD(b, a % b)

RECURSIVE SeqGCD(_, _)
SeqGCD(data, g) ==
  IF data = <<>> THEN g ELSE SeqGCD(Tail(data), GCD(g, Abs(Head(data))))

Lowest(den, data) ==
  LET g == SeqGCD(data, den)
  IN [den |-> den \div g, data |-> [i \in 1..Len(data) |-> data[i] \div g]]

\* the mix is always scaled to peak 0.8, also when it is quieter
Normalize_always(mixed, den) ==
  LET peak == Max({Abs(mixed[i]) : i \in 1..Len(mixed)})
  IN IF peak > 0
     THEN Lowest(10 * peak, [i \in 1..Len(mixed) |-> mixed[i] * 8])
     ELSE Lowest(den, mixed)

\* lines 367-370: peak = np.abs(mixed).max(); if peak > 0.8 the mix is
\* multiplied by 0.8 / peak.  A frame m / den becomes 8 m / (10 peak).
Normalize(mixed, den) ==
  LET peak == Max({Abs(mixed[i]) : i \in 1..Len(mixed)})
  IN IF peak * 10 > 8 * den
     THEN Lowest(10 * peak, [i \in 1..Len(mixed) |-> mixed[i] * 8])
     ELSE Lowest(den, mixed)

\* integer part of n / d, rounded toward zero as astype(np.int16) does
Trunc(n, d) == IF n >= 0 THEN n \div d ELSE -((-n) \div d)

\* save_wav: np.clip(data, -1.0, 1.0), then (data * 32767).astype(np.int16);
\* data are numbers of 1 / den
save_wav(data, den) ==
  [i \in 1..Len(data) |->
     LET clipped == IF data[i] > den THEN den
                    ELSE IF data[i] < -den THEN -den ELSE data[i]
     IN Trunc(clipped * Int16Max, den)]

MixFailed == [ok |-> FALSE]

\* the stem named 'kick' of the mapping, as <<[rate, data]>> with the
\* absolute mono signal create_kick_envelope works on (<<>>: no such stem)
KickStem(stems) ==
  IF \E i \in 1..Len(stems) : stems[i].name = "kick"
  THEN LET k == CHOOSE i \in 1..Len(stems) : stems[i].name = "kick"
       IN <<[rate |-> stems[k].rate,
             data |-> [j \in 1..Len(stems[k].data) |-> Abs(stems[k].data[j])]]>>
  ELSE <<>>

\* what gaussian_filter1d can return inside create_kick_envelope for these
\* stems and this mix length
KickSmoothings(stems, max_length) ==
  IF KickStem(stems) = <<>> \/ max_length = 0 THEN {<<>>}
  ELSE IF KickLength(KickStem(stems)[1], stems[1].rate) = 0
  THEN {[idx \in 1..max_length |-> 0]}
  ELSE IF Len(KickStem(stems)[1].data) = 0
  THEN [1..max_length -> 0..MaxAmp]
  ELSE Smoothings(TileTo(KickStem(stems)[1].data, max_length),
                  KickStem(stems)[1].rate # stems[1].rate)

\* the length of the mix: that of the longest stem after resampling
MaxLength(stems) ==
  Max({IF stems[i].rate = stems[1].rate THEN Len(stems[i].data)
       ELSE ResampledLength(stems, i) : i \in 1..Len(stems)})

\* mix_stems on the samples: stems is the mapping as a sequence of [name,
\* rate, data] (every file exists), midi is <<>> or <<kick_times>>, resampled
\* and smoothed are what scipy returned.  The result is the rate, the sum
\* before the peak check, the buffer handed to save_wav, and the 16-bit
\* frames written.  An exception (resampling to length 0, the peak of an
\* empty mix) gives False.
mix_stems_samples(stems, apply_sidechain_to, stem_gains, midi, sidechain_amount, resampled, smoothed) ==
  IF stems = <<>> THEN MixFailed
  ELSE IF \E i \in 1..Len(stems) :
            stems[i].rate # stems[1].rate /\ ResampledLength(stems, i) = 0
  THEN MixFailed
  ELSE LET sample_rate == stems[1].rate
           data == LoadedData(stems, resampled)
           max_length == Max({Len(data[i]) : i \in 1..Len(stems)})
           made ==
             IF midi # <<>>
             THEN create_sidechain_envelope_from_midi(
                    midi[1], (max_length * 1000) \div sample_rate, sample_rate,
                    sidechain_amount, AttackMs, HoldMs, ReleaseMs)
             ELSE IF KickStem(stems) # <<>>
             THEN create_kick_envelope(KickStem(stems), sample_rate,
                                       max_length, smoothed)
             ELSE [one |-> 1, env |-> <<>>]
           low == Lowest(made.one, made.env)
           kick_envelope == [one |-> low.den, env |-> low.data]
           den == MaxAmp * 10 * kick_envelope.one
           mixed == [idx \in 1..max_length |->
                       Summed(stems, data, Len(stems), idx, stem_gains,
                              apply_sidechain_to, kick_envelope)]
           out == Normalize(mixed, den)
       IN IF max_length = 0 THEN MixFailed
          ELSE [ok |-> TRUE,
                rate |-> sample_rate,
                summed |-> Lowest(den, mixed),
                mixed |-> out,
                written |-> save_wav(out.data, out.den)]

\* the buffers a stem can hold
Buffers(values) == UNION {[1..n -> values] : n \in 0..MaxFrames}

MixOptions ==
  [apply_sidechain_to : {{"bass", "lead", "pad"}},
   stem_gains : {<<>>, [bass |-> 10, vox |-> 10]},
   midi : {<<>>, <<<<>>>>, <<<<0>>>>},
   sidechain_amount : {5}]

\* the calls of mix_stems: one stem of any level; or the stems 'kick' and
\* 'bass' in either order, of one rate, or of two rates and at most one frame
MixCalls ==
  {[fn |-> "mix_stems", stems |-> st, opt |-> o] :
     st \in {<<[name |-> n, rate |-> rt, data |-> d]>> :
               n \in {"kick", "bass", "vox"}, rt \in {500, 1000},
               d \in Buffers((-MaxAmp)..MaxAmp)}
            \cup
            {<<[name |-> n[1], rate |-> 1000, data |-> d1],
               [name |-> n[2], rate |-> 1000, data |-> d2]>> :
               n \in {<<"kick", "bass">>, <<"bass", "kick">>},
               d1 \in Buffers({-MaxAmp, 0, MaxAmp}),
               d2 \in Buffers({-MaxAmp, 0, MaxAmp})}
            \cup
            {<<[name |-> n[1], rate |-> rt[1], data |-> d1],
               [name |-> n[2], rate |-> rt[2], data |-> d2]>> :
               n \in {<<"kick", "bass">>, <<"bass", "kick">>},
               rt \in {<<1000, 500>>, <<500, 1000>>},
               d1 \in UNION {[1..k -> {-MaxAmp, MaxAmp}] : k \in 0..1},
               d2 \in UNION {[1..k -> {-MaxAmp, MaxAmp}] : k \in 0..1}},
     o \in MixOptions}

InitMixer ==
  /\ Idle
  /\ fn_args \in MixCalls
  /\ fn_result = <<>>

CallMixStems ==
  /\ fn_args.fn = "mix_stems"
  /\ fn_result = <<>>
  /\ \E resampled \in Resamplings(fn_args.stems, 1) :
       \E smoothed \in KickSmoothings(fn_args.stems, MaxLength(fn_args.stems)) :
         fn_result' = mix_stems_samples(
                        fn_args.stems, fn_args.opt.apply_sidechain_to,
                        fn_args.opt.stem_gains, fn_args.opt.midi,
                        fn_args.opt.sidechain_amount, resampled, smoothed)
  /\ UNCHANGED <<fn_args, produce_vars>>

NextMixer == CallMixStems

\* mix_stems called on its own
SpecMixer == InitMixer /\ [][NextMixer]_vars

(***************************************************************************)
(* audio_validation.py: validate_audio_file called on its own              *)
(***************************************************************************)
\* int(ms / 1000 * rate): the frames of a file of that duration
FramesOf(ms, rate) == (ms * rate) \div 1000

\* the files handed to the validator: a missing one, an empty one, files too
\* small to be audio, and files of at least MinFileSize bytes whose header
\* is unreadable or announces a length, a rate and samples at, just below
\* and just above the thresholds
ValidateFiles ==
  {NoFile, ZeroBytes} \cup
  { [exists |-> TRUE, size |-> size, header |-> header, frames |-> frames,
     rate |-> rate, rms |-> rms] :
      size \in {1, MinFileSize - 1, MinFileSize,
                WavHeaderBytes + BytesPerFrame * FramesOf(MinDurationMs, SampleRate)},
      header \in {"ok", "bad", "cut"},
      frames \in {0, FramesOf(MinDurationMs - 100, SampleRate),
                  FramesOf(MinDurationMs, SampleRate) - 1,
                  FramesOf(MinDurationMs, SampleRate),
                  FramesOf(MinDurationMs, SampleRate) + 1},
      rate \in {0, SampleRate},
      rms \in {RmsZero, MinRmsDb10 - 1, MinRmsDb10, MinRmsDb10 + 1,
               MasteredRmsDb10} }

ValidateCalls ==
  [fn : {"validate_audio_file"}, file : ValidateFiles,
   min_duration_ms : {MinDurationMs}, min_rms_db10 : {MinRmsDb10}]

InitValidate ==
  /\ Idle
  /\ fn_args \in ValidateCalls
  /\ fn_result = <<>>

CallValidate ==
  /\ fn_args.fn = "validate_audio_file"
  /\ fn_result = <<>>
  /\ fn_result' = validate_audio_file(fn_args.file, fn_args.min_duration_ms,
                                      fn_args.min_rms_db10)
  /\ UNCHANGED <<fn_args, produce_vars>>

NextValidate == CallValidate

\* validate_audio_file called on its own
SpecValidate == InitValidate /\ [][NextValidate]_vars

(***************************************************************************)
(* stem_mixer.py: save_wav followed by load_wav                            *)
(***************************************************************************)
\* np.clip(x, -1.0, 1.0) of a number of 1 / den
Clip(x, den) == IF x > den THEN den ELSE IF x < -den THEN -den ELSE x

\* load_wav of a 16-bit file: every sample divided by 32768.0, a mono file
\* stacked to two channels
load_wav(data_int16, channels) ==
  [channels |-> 2, den |-> Int16Scale, data |-> data_int16]

\* buffers of up to MaxFrames frames whose samples reach from -1.5 to 1.5,
\* mono or stereo with both channels alike
WavCalls ==
  [fn : {"save_wav"}, channels : {1, 2},
   data : UNION { [1..n -> -(Levels + Levels \div 2)..(Levels + Levels \div 2)] :
                    n \in 0..MaxFrames }]

InitWav ==
  /\ Idle
  /\ fn_args \in WavCalls
  /\ fn_result = <<>>

\* save_wav(path, rate, data) and then load_wav(path)
CallSaveLoad ==
  /\ fn_args.fn = "save_wav"
  /\ fn_result = <<>>
  /\ LET written == save_wav(fn_args.data, Levels)
     IN fn_result' = [written |-> written,
                      loaded |-> load_wav(written, fn_args.channels)]
  /\ UNCHANGED <<fn_args, produce_vars>>

NextWav == CallSaveLoad

\* a buffer saved and loaded again
SpecWav == InitWav /\ [][NextWav]_vars

(***************************************************************************)
(* produce: what the genre of the request selects (app.py lines 185-228    *)
(* and 302-324, mix/schema.py lines 137-167)                               *)
(***************************************************************************)
Genres == {"RAP", "HOUSE", "RNB", "EDM_CHILL", "EDM_DROP", "JAZZ"}

PresetNames == {"rap", "house", "rnb"}

\* get_preset_for_genre's genre_map.get(genre, 'house')
genre_map(genre) ==
  CASE genre = "RAP" -> "rap"
    [] genre = "HOUSE" -> "house"
    [] genre = "RNB" -> "rnb"
    [] genre = "EDM_DROP" -> "house"
    [] genre = "EDM_CHILL" -> "rnb"
    [] OTHER -> "house"

\* produce's kit_name = {...}.get(genre, 'house')
kit_name(genre) ==
  CASE genre = "RAP" -> "trap_808"
    [] genre = "HOUSE" -> "house"
    [] genre = "RNB" -> "rnb_soft"
    [] genre = "EDM_DROP" -> "house"
    [] genre = "EDM_CHILL" -> "rnb_soft"
    [] OTHER -> "house"

\* get_preset_for_genre inside produce's try: the preset of the mapped name
\* with its bus.sidechain_amount (in 1 / AmountDen) as <<preset>>, or <<>>
\* for None when load_mix_preset raised (no such file); presets: what the preset
\* directory holds under each name, <<>> or <<sidechain_amount>>
get_preset_for_genre(genre, presets) ==
  IF presets[genre_map(genre)] = <<>> THEN <<>>
  ELSE <<[name |-> genre_map(genre),
          sidechain_amount |-> presets[genre_map(genre)][1]]>>

\* produce lines 309-314: 0.5, replaced by the preset's amount if that is > 0
SidechainAmount(preset) ==
  IF preset # <<>> /\ preset[1].sidechain_amount > 0
  THEN preset[1].sidechain_amount
  ELSE AmountDen \div 2

\* requests with a composite MIDI file and every genre, over preset
\* directories whose files are missing or hold the amounts 0.0, 0.3 and 1.0
GenreCalls ==
  [fn : {"produce"}, genre : Genres, use_sample_drums : BOOLEAN,
   presets : [PresetNames -> {<<>>, <<0>>, <<3>>, <<AmountDen>>}]]

InitGenre ==
  /\ Idle
  /\ fn_args \in GenreCalls
  /\ fn_result = <<>>

\* produce from the preset to the call of mix_stems, with the drum sampler
\* and the MixPreset class the module has
ProduceSelect ==
  /\ fn_args.fn = "produce"
  /\ fn_result = <<>>
  /\ LET preset == get_preset_for_genre(fn_args.genre, fn_args.presets)
         sampled == /\ fn_args.use_sample_drums
                    /\ DrumSamplerConstructed
                    /\ RenderMidiCallAccepted
     IN fn_result' =
          [mix_preset |-> preset,
           kit |-> IF sampled THEN kit_name(fn_args.genre) ELSE "None",
           mixer |-> IF preset # <<>> /\ "buses" \notin MixPresetAttrs
                     THEN <<>>      \* mix_preset.buses raises AttributeError
                     ELSE <<[sidechain_amount |-> SidechainAmount(preset)]>>]
  /\ UNCHANGED <<fn_args, produce_vars>>

NextGenre == ProduceSelect

\* produce up to the call of the mixer, for every genre
SpecGenre == InitGenre /\ [][NextGenre]_vars

(***************************************************************************)
(* drum_sampler.py: DrumSampler.get_sample on one sampler object           *)
(***************************************************************************)
\* self.midi_to_category.get(midi_note) of a kit that maps 36 and 38
midi_to_category(midi_note) ==
  CASE midi_note = 36 -> "kick"
    [] midi_note = 38 -> "snare"
    [] OTHER -> "None"

\* a DrumSampler after __init__, shared by the callers of get_sample: pools
\* of 0..MaxPool samples per category (a sample is named by its place in
\* the pool), every cursor 0.  Of each caller: where it is in get_sample (pc,
\* category, idx), how many calls it made, what its last call returned
\* (entry, -1: None) and how many round-robin draws it made per category
\* (own); draws: the round-robin draws of all callers per category.
InitDrumSampler(callers) ==
  /\ Idle
  /\ fn_args \in [fn : {"get_sample"}, callers : {callers},
                  pools : [{"kick", "snare"} -> 0..MaxPool]]
  /\ fn_result =
       [round_robin_idx |-> [c \in {"kick", "snare"} |-> 0],
        draws |-> [c \in {"kick", "snare"} |-> 0],
        pc |-> [r \in Reqs |-> "idle"],
        category |-> [r \in Reqs |-> "None"],
        idx |-> [r \in Reqs |-> 0],
        calls |-> [r \in Reqs |-> 0],
        last |-> [r \in Reqs |-> [method |-> "None", category |-> "None",
                                  entry |-> -1]],
        own |-> [r \in Reqs |-> [c \in {"kick", "snare"} |-> 0]]]

\* a get_sample that advances the cursor without wrapping it
get_sample_write_unwrapped(r) ==
  /\ fn_args.fn = "get_sample"
  /\ fn_result.pc[r] = "write"
  /\ fn_result' = [fn_result EXCEPT
       !.pc[r] = "idle",
       !.round_robin_idx[fn_result.category[r]] = fn_result.idx[r] + 1]
  /\ UNCHANGED <<fn_args, produce_vars>>

\* get_sample, line 131: self.round_robin_idx[category] = (idx + 1) % len(pool)
get_sample_write(r) ==
  /\ fn_args.fn = "get_sample"
  /\ fn_result.pc[r] = "write"
  /\ fn_result' = [fn_result EXCEPT
       !.pc[r] = "idle",
       !.round_robin_idx[fn_result.category[r]] =
          (fn_result.idx[r] + 1) % fn_args.pools[fn_result.category[r]]]
  /\ UNCHANGED <<fn_args, produce_vars>>

\* get_sample, lines 112-130: the category of the note, its pool, and the
\* sample chosen by the method; a round-robin draw has read the cursor and
\* has yet to write it
get_sample_read(r) ==
  /\ fn_args.fn = "get_sample"
  /\ r \in fn_args.callers
  /\ fn_result.pc[r] = "idle"
  /\ fn_result.calls[r] < MaxDraws
  /\ \E midi_note \in {36, 38, 60}, velocity \in {1, 127},
        method \in {"round-robin", "random", "velocity"} :
       LET category == midi_to_category(midi_note)
           n == IF category = "None" THEN 0 ELSE fn_args.pools[category]
           called == [fn_result EXCEPT !.calls[r] = @ + 1]
       IN IF n = 0
          THEN fn_result' = [called EXCEPT
                 !.last[r] = [method |-> method, category |-> category,
                              entry |-> -1]]
          ELSE IF method = "random"
          THEN \E entry \in 0..(n - 1) :
                 fn_result' = [called EXCEPT
                   !.last[r] = [method |-> method, category |-> category,
                                entry |-> entry]]
          ELSE IF method = "velocity"
          THEN fn_result' = [called EXCEPT
                 !.last[r] = [method |-> method, category |-> category,
                              entry |-> (velocity * (n - 1)) \div 127]]
          ELSE fn_result' = [called EXCEPT
                 !.pc[r] = "write",
                 !.category[r] = category,
                 !.idx[r] = fn_result.round_robin_idx[category],
                 !.draws[category] = @ + 1,
                 !.own[r][category] = @ + 1,
                 !.last[r] = [method |-> method, category |-> category,
                              entry |-> fn_result.round_robin_idx[category]]]
  /\ UNCHANGED <<fn_args, produce_vars>>

NextSampler == \E r \in Reqs : get_sample_read(r) \/ get_sample_write(r)

\* get_sample called by one caller at a time
SpecSampler == InitDrumSampler({1}) /\ [][NextSampler]_vars

\* get_sample called by the requests of two threads on the sampler they share
SpecSharedSampler == InitDrumSampler(Reqs) /\ [][NextSampler]_vars

(***************************************************************************)
(* MIDI files as the parsers read them (mido.MidiFile): ticks_per_beat and *)
(* tracks of messages [type, time (delta ticks), tempo, note, text].       *)
(* Tempos are in ms per beat (500: the 500000 microseconds of 120 BPM),    *)
(* times in ms; note_on messages are on channel 9 with a velocity > 0; the *)
(* text of a marker is the set of keywords its lower-cased text contains.  *)
(***************************************************************************)
Msg(type, time, tempo, note, text) ==
  [type |-> type, time |-> time, tempo |-> tempo, note |-> note, text |-> text]

\* for track in midi.tracks: for msg in track: if msg.type == 'set_tempo':
\* tempo = msg.tempo; break -- the break leaves the inner loop only, so the
\* first set_tempo of every later track assigns again
RECURSIVE ScanTempo(_, _, _)
ScanTempo(tracks, i, tempo) ==
  IF i > Len(tracks) THEN tempo
  ELSE LET found == {k \in 1..Len(tracks[i]) : tracks[i][k].type = "set_tempo"}
       IN ScanTempo(tracks, i + 1,
                    IF found = {} THEN tempo ELSE tracks[i][Min(found)].tempo)

\* current_time of the k-th message of a track, in ticks
RECURSIVE Ticks(_, _)
Ticks(track, k) == IF k = 0 THEN 0 ELSE Ticks(track, k - 1) + track[k].time

\* the messages in the order the loops visit them (track by track), each
\* with the ticks accumulated in its track
RECURSIVE Timed(_, _)
Timed(tracks, i) ==
  IF i > Len(tracks) THEN <<>>
  ELSE [k \in 1..Len(tracks[i]) |->
          [msg |-> tracks[i][k], ticks |-> Ticks(tracks[i], k)]]
       \o Timed(tracks, i + 1)

\* ticks * seconds_per_tick, in ms
TickMs(midi, ticks, tempo) == (ticks * tempo) \div midi.ticks_per_beat

\* mido's midi.length in ms, for files whose set_tempo messages all stand at
\* tick 0: the longest track played at the last of these tempos
MidiLength(midi) ==
  LET all == Timed(midi.tracks, 1)
      tempos == {k \in 1..Len(all) : all[k].msg.type = "set_tempo"}
      tempo == IF tempos = {} THEN DefaultTempo ELSE all[Max(tempos)].msg.tempo
  IN TickMs(midi, Max({0} \cup {all[k].ticks : k \in 1..Len(all)}), tempo)

\* parse_kick_events_from_midi: the times of the kick notes (35, 36)
parse_kick_events_from_midi(midi) ==
  LET tempo == ScanTempo(midi.tracks, 1, DefaultTempo)
      kicks == SelectSeq(Timed(midi.tracks, 1),
                 LAMBDA e : e.msg.type = "note_on" /\ e.msg.note \in {35, 36})
  IN [k \in 1..Len(kicks) |-> TickMs(midi, kicks[k].ticks, tempo)]

\* DrumSampler.render_midi with a kit that has a sample for every note: the
\* length of the buffer and, per note event, the position its sample is
\* added at (placed: inside the buffer, which ends 2 s after the last event)
render_midi(midi) ==
  LET tempo == ScanTempo(midi.tracks, 1, DefaultTempo)
      notes == SelectSeq(Timed(midi.tracks, 1), LAMBDA e : e.msg.type = "note_on")
      times == {TickMs(midi, notes[k].ticks, tempo) : k \in 1..Len(notes)}
      duration == IF times = {} THEN 10000 ELSE Max(times) + 2000
  IN [ok |-> TRUE,
      num_samples |-> Samples(duration, SampleRate),
      hits |-> [k \in 1..Len(notes) |->
                  [note |-> notes[k].msg.note, placed |-> TRUE,
                   pos |-> Samples(TickMs(midi, notes[k].ticks, tempo), SampleRate)]]]

\* DrumSynthesizer.render_midi_to_drums: current_time += msg.time adds the
\* ticks themselves, start_sample = int(current_time * self.sr); sound_len:
\* the samples of every drum sound.  A hit starting past the end of the
\* buffer adds drum_sound[:negative] to an empty slice: nothing when that is
\* empty or one sample, a ValueError otherwise.
render_midi_to_drums(midi, sound_len) ==
  LET notes == SelectSeq(Timed(midi.tracks, 1),
                 LAMBDA e : e.msg.type = "note_on"
                            /\ e.msg.note \in {35, 36, 38, 40})
      num_samples == Samples(MidiLength(midi) + 2000, SampleRate)
      start(k) == notes[k].ticks * SampleRate
  IN IF \E k \in 1..Len(notes) :
          start(k) > num_samples /\ sound_len - (start(k) - num_samples) > 1
     THEN [ok |-> FALSE, num_samples |-> num_samples, hits |-> <<>>]
     ELSE [ok |-> TRUE, num_samples |-> num_samples,
           hits |-> [k \in 1..Len(notes) |->
                       [note |-> notes[k].msg.note,
                        placed |-> start(k) < num_samples, pos |-> start(k)]]]

\* marker events whose uplifter starts 2 s before the marker even when
\* that is before time 0
RECURSIVE MarkerEvents_unclamped(_, _)
MarkerEvents_unclamped(markers, k) ==
  IF k > Len(markers) THEN <<>>
  ELSE LET text == markers[k].text
           t == markers[k].time
       IN (IF "drop" \in text \/ "build" \in text
           THEN << [time |-> t - 2000, type |-> "uplifter", duration |-> 2000] >>
           ELSE <<>>)
          \o (IF "break" \in text \/ "breakdown" \in text
              THEN << [time |-> t, type |-> "downlifter", duration |-> 1500] >>
              ELSE <<>>)
          \o (IF "intro" \in text \/ "verse" \in text \/ "chorus" \in text
              THEN << [time |-> t, type |-> "impact", duration |-> 500] >>
              ELSE <<>>)
          \o MarkerEvents_unclamped(markers, k + 1)

\* _parse_fx_events_from_midi, lines 335-361: the events of the markers from
\* the k-th on; markers: [text, time]
RECURSIVE MarkerEvents(_, _)
MarkerEvents(markers, k) ==
  IF k > Len(markers) THEN <<>>
  ELSE LET text == markers[k].text
           t == markers[k].time
       IN (IF "drop" \in text \/ "build" \in text
           THEN << [time |-> Max({0, t - 2000}), type |-> "uplifter",
                    duration |-> 2000] >>
           ELSE <<>>)
          \o (IF "break" \in text \/ "breakdown" \in text
              THEN << [time |-> t, type |-> "downlifter", duration |-> 1500] >>
              ELSE <<>>)
          \o (IF "intro" \in text \/ "verse" \in text \/ "chorus" \in text
              THEN << [time |-> t, type |-> "impact", duration |-> 500] >>
              ELSE <<>>)
          \o MarkerEvents(markers, k + 1)

\* FXPlayer._parse_fx_events_from_midi: the events of the text and marker
\* messages, or when there are none,
\* for i in range(1, int(duration / 16)): an impact at i * 16.0
parse_fx_events_from_midi(midi) ==
  LET tempo == ScanTempo(midi.tracks, 1, DefaultTempo)
      found == SelectSeq(Timed(midi.tracks, 1),
                 LAMBDA e : e.msg.type \in {"text", "marker"})
      events == MarkerEvents([k \in 1..Len(found) |->
                                [text |-> found[k].msg.text,
                                 time |-> TickMs(midi, found[k].ticks, tempo)]], 1)
  IN IF events # <<>> THEN events
     ELSE [i \in 1..((MidiLength(midi) \div 16000) - 1) |->
             [time |-> i * 16000, type |-> "impact", duration |-> 500]]

\* the tracks of up to MaxMsgs messages: set_tempo messages at tick 0 first
\* (none, 60 BPM, 240 BPM or both), then kicks and snares on or half a beat
\* and a beat after the message before, and 'drop' markers
MidiTracks ==
  { prefix \o events :
      prefix \in {<<>>, << Msg("set_tempo", 0, 1000, 0, {}) >>,
                  << Msg("set_tempo", 0, 250, 0, {}) >>,
                  << Msg("set_tempo", 0, 1000, 0, {}),
                     Msg("set_tempo", 0, 250, 0, {}) >>},
      events \in UNION { [1..n -> { Msg("note_on", 0, 0, 36, {}),
                                    Msg("note_on", 240, 0, 36, {}),
                                    Msg("note_on", 480, 0, 38, {}),
                                    Msg("marker", 480, 0, 0, {"drop"}) }] :
                         n \in 0..MaxMsgs } }

MidiCalls ==
  [fn : {"parse_kick_events_from_midi", "parse_fx_events_from_midi",
         "render_midi", "render_midi_to_drums"},
   midi : [ticks_per_beat : {480},
           tracks : UNION { [1..n -> MidiTracks] : n \in 1..MaxTracks }]]

InitMidi ==
  /\ Idle
  /\ fn_args \in MidiCalls
  /\ fn_result = <<>>

CallParseKicks ==
  /\ fn_args.fn = "parse_kick_events_from_midi"
  /\ fn_result = <<>>
  /\ fn_result' = [kick_times |-> parse_kick_events_from_midi(fn_args.midi)]
  /\ UNCHANGED <<fn_args, produce_vars>>

\* DrumSampler.render_midi
CallRenderMidi ==
  /\ fn_args.fn = "render_midi"
  /\ fn_result = <<>>
  /\ fn_result' = render_midi(fn_args.midi)
  /\ UNCHANGED <<fn_args, produce_vars>>

\* DrumSynthesizer.render_midi_to_drums; the house kick of 0.6 s stands for
\* every drum sound
CallRenderMidiToDrums ==
  /\ fn_args.fn = "render_midi_to_drums"
  /\ fn_result = <<>>
  /\ fn_result' = render_midi_to_drums(fn_args.midi, Samples(600, SampleRate))
  /\ UNCHANGED <<fn_args, produce_vars>>

\* FXPlayer._parse_fx_events_from_midi
CallParseFx ==
  /\ fn_args.fn = "parse_fx_events_from_midi"
  /\ fn_result = <<>>
  /\ fn_result' = [events |-> parse_fx_events_from_midi(fn_args.midi)]
  /\ UNCHANGED <<fn_args, produce_vars>>

NextMidi ==
  CallParseKicks \/ CallRenderMidi \/ CallRenderMidiToDrums \/ CallParseFx

\* the MIDI readers called on their own, on files of several tracks
SpecMidi == InitMidi /\ [][NextMidi]_vars

\* files of one track without set_tempo: markers of every keyword group, of
\* several and of none, 0, 0.5 s or 8 s after the message before, and notes
\* 20 s after it
InitFx ==
  /\ Idle
  /\ fn_args \in
       [fn : {"parse_fx_events_from_midi"},
        midi : [ticks_per_beat : {480},
                tracks : { <<track>> :
                  track \in UNION { [1..n ->
                    { Msg("marker", time, 0, 0, text) :
                        time \in {0, 480, 7680},
                        text \in {{}, {"drop"}, {"build"}, {"break"},
                                  {"break", "breakdown"}, {"intro"}, {"verse"},
                                  {"chorus"}, {"drop", "break", "chorus"}} }
                    \cup { Msg("note_on", 19200, 0, 36, {}) }] :
                    n \in 0..MaxMsgs } }]]
  /\ fn_result = <<>>

\* FXPlayer._parse_fx_events_from_midi called on its own
SpecFx == InitFx /\ [][CallParseFx]_vars

(***************************************************************************)
(* synth_drums.py: the procedural drum generators                          *)
(***************************************************************************)
\* what multiplies the np.random.randn(len(t)) draws of a generator, in
\* tenths: punch * 0.3 of the 808 kick, noise_mix of the snare, metallic of
\* the percussion, a fixed share for the clap and the hi-hat; the house kick
\* draws nothing
NoiseGain(fn, mix) ==
  CASE fn = "synthesize_house_kick" -> 0
    [] fn \in {"synthesize_clap", "synthesize_hihat"} -> 10
    [] OTHER -> mix

\* the six generators, with a pitch and the parameter that weighs the noise
InitSynth ==
  /\ Idle
  /\ fn_args \in [fn : {"synthesize_808_kick", "synthesize_house_kick",
                        "synthesize_snare", "synthesize_clap",
                        "synthesize_hihat", "synthesize_percussion"},
                  pitch : {50, 60}, mix : {0, 3, 10}]
  /\ fn_result = <<>>

\* one call of the generator: the buffer returned is its tonal part, a
\* function of the parameters, plus the weighted values the global random
\* generator of numpy delivers at this call; fn_result holds the buffers
\* of the calls made so far
CallSynthesize ==
  /\ fn_args.fn \in {"synthesize_808_kick", "synthesize_house_kick",
                     "synthesize_snare", "synthesize_clap",
                     "synthesize_hihat", "synthesize_percussion"}
  /\ Len(fn_result) < 2
  /\ \E randn \in [1..MaxFrames -> {-1, 0, 1}] :
       fn_result' = Append(fn_result,
         [tonal |-> <<fn_args.fn, fn_args.pitch, fn_args.mix>>,
          noise |-> [i \in 1..MaxFrames |->
                       randn[i] * NoiseGain(fn_args.fn, fn_args.mix)]])
  /\ UNCHANGED <<fn_args, produce_vars>>

\* a generator called twice with the same parameters
SpecSynth == InitSynth /\ [][CallSynthesize]_vars

(***************************************************************************)
(* Properties                                                              *)
(***************************************************************************)
\* the request got past the parsing of lines 176-194
Parsed(r) ==
  /\ pc[r] \notin {"absent", "render"}
  /\ req[r].has_data
  /\ req[r].output_path # NoPath
  /\ ~(req[r].midi_path = "None" /\ Len(req[r].stems_midi) = 0)

\* C1: whenever produce answers success, the file at output_path passes
\* validate_audio_file(min_duration_sec = 2.0, min_rms_db = -60): it has
\* frames, lasts at least 2.0 s and is not silent, whatever the renderers,
\* the mixer, the mastering chain and the limiter did.
C1_SuccessOutputIsValid ==
  \A r \in Reqs :
    resp[r].status = "success" =>
      LET out == files[req[r].output_path]
      IN /\ validate_audio_file(out, MinDurationMs, MinRmsDb10)[1]
         /\ out.frames > 0
         /\ out.frames * 1000 >= MinDurationMs * out.rate
         /\ out.rms # RmsZero

\* a success whose output had failed validation and was replaced by the
\* fallback audio
C1_Witness ==
  \E r \in Reqs :
    /\ resp[r].status = "success"
    /\ calls[r].fallback = 1
    /\ files[req[r].output_path].frames = 30 * SampleRate

\* C2: if validation of the final output fails, produce overwrites
\* output_path with the 30 s fallback audio and still answers success (200)
\* with validation_passed = false and a non-null validation_error; if
\* validation passes, no fallback is written, validation_passed = true and
\* validation_error is null.
C2_ValidationFailureAnswersSuccess ==
  \A r \in Reqs :
    pc[r] = "done" /\ Parsed(r) =>
      /\ calls[r].fallback > 0 =>
           /\ resp[r].status = "success" /\ resp[r].code = 200
           /\ ~resp[r].validation_passed
           /\ resp[r].validation_error # "None"
           /\ files[req[r].output_path] =
                Wav(30 * SampleRate, SampleRate, FallbackRmsDb10)
      /\ resp[r].status = "success" /\ calls[r].fallback = 0 =>
           /\ resp[r].validation_passed
           /\ resp[r].validation_error = "None"

\* C3: the mastering stages run in the order equalize, compress,
\* loudness-normalize/limit; a failing stage ends the chain, which reports
\* failure; produce then applies the simple limiter exactly once, to the
\* mixed file and never to an intermediate of the chain; the mastering step
\* itself never ends the request with an error, and nothing of the chain or
\* the limiter is run again afterwards.
C3_MasteringFallsBackToLimiter ==
  /\ [](\A r \in Reqs :
          /\ calls[r].stages = SubSeq(MasterStages, 1, Len(calls[r].stages))
          /\ calls[r].failed_at > 0 =>
               /\ calls[r].stages = SubSeq(MasterStages, 1, calls[r].failed_at)
               /\ master_success[r] = "False"
          /\ master_success[r] = "True" =>
               calls[r].stages = MasterStages /\ calls[r].limiter = <<>>
          /\ master_success[r] = "False" => calls[r].limiter = <<TmpMixed(r)>>)
  /\ [][\A r \in Reqs :
          /\ pc[r] = "master" /\ pc'[r] # "master" =>
               pc'[r] = "finish" /\ resp'[r] = resp[r]
          /\ pc[r] \in {"finish", "validate", "done"} =>
               /\ calls'[r].stages = calls[r].stages
               /\ calls'[r].limiter = calls[r].limiter
               /\ master_success'[r] = master_success[r]]_vars

\* the compressor fails, the limiter runs on the mixed file and the request
\* succeeds
C3_Witness ==
  \E r \in Reqs :
    /\ master_success[r] = "False"
    /\ calls[r].stages = <<"eq", "comp">>
    /\ calls[r].limiter = <<TmpMixed(r)>>
    /\ resp[r].status = "success"

\* C4: every temporary per-stem WAV a produce request creates no longer
\* exists when the request returns its response, on every exit path.
C4_TempStemsRemovedOnEveryExit ==
  \A r \in Reqs :
    pc[r] = "done" => \A p \in temp_stems[r] : ~files[p].exists

\* C5: two produce requests running concurrently in one process never use
\* the same temporary per-stem file path.
C5_TempStemPathsDisjoint ==
  \A r1 \in Reqs, r2 \in Reqs :
    r1 # r2 /\ pc[r1] \notin {"absent", "done"} /\ pc[r2] \notin {"absent", "done"}
      => temp_stems[r1] \cap temp_stems[r2] = {}

\* C6 (as stated): mix_stems fails, and produce answers 'Mixing failed',
\* whenever no stem could be loaded or a stem file named in the mapping is
\* missing; it then writes no empty or partial mix.
C6_MissingStemFailsMix ==
  \A r \in Reqs :
    calls[r].mix = 1 /\ (calls[r].loaded = {} \/ calls[r].missing # {}) =>
      /\ calls[r].mix_ok = "False"
      /\ resp[r].status = "error" /\ resp[r].message = "Mixing failed"

\* C6 (amended): mix_stems fails, and produce answers 'Mixing failed',
\* whenever no stem could be loaded (none of the files of the mapping
\* exists); whenever it fails, the request ends with 'Mixing failed' (500)
\* and no mix has been written to the mix file; a mix that succeeds has
\* summed at least one stem, skipping the stems whose file is missing.
C6_NoLoadedStemFailsMix ==
  \A r \in Reqs :
    calls[r].mix = 1 =>
      /\ calls[r].loaded = {} => calls[r].mix_ok = "False"
      /\ calls[r].mix_ok = "False" =>
           /\ pc[r] = "done"
           /\ resp[r].status = "error" /\ resp[r].code = 500
           /\ resp[r].message = "Mixing failed"
           /\ files[TmpMixed(r)] = ZeroBytes
      /\ calls[r].mix_ok = "True" =>
           /\ calls[r].loaded # {}
           /\ resp[r].message # "Mixing failed"

\* every stem file of the mapping is gone when the mixer runs, and the
\* request ends with 'Mixing failed'
C6_Witness ==
  \E r \in Reqs :
    /\ calls[r].mix = 1
    /\ calls[r].loaded = {}
    /\ calls[r].missing # {}
    /\ resp[r].message = "Mixing failed"

\* C7: a stem whose MIDI file is absent or whose external render fails is
\* skipped without failing the request; the request proceeds to mixing if
\* and only if at least one stem was rendered, and otherwise ends with the
\* error 'No stems rendered'.
C7_MixingIffSomeStemRendered ==
  \A r \in Reqs :
    pc[r] = "done" /\ Parsed(r) =>
      /\ stem_wavs[r] # <<>> <=> calls[r].mix = 1
      /\ stem_wavs[r] = <<>> <=>
           resp[r].status = "error" /\ resp[r].message = "No stems rendered"

\* C8: when a request asks for sample drums and gives a composite MIDI, and
\* the sample renderer does not produce the drum stem, the external renderer
\* is tried exactly once on that MIDI; 'drums' is a stem of the mix iff one
\* of the two renderers succeeded.
C8_DrumsFallBackToEngine ==
  \A r \in Reqs :
    Parsed(r) /\ req[r].use_sample_drums /\ req[r].midi_path # "None" =>
      \/ "drums" \in Names(stem_wavs[r]) /\ calls[r].drum_engine = 0
      \/ calls[r].drum_engine = 1

\* C9: the success response reports the path actually taken:
\* mastering_applied is true only when the full mastering chain produced
\* the output, not when the simple limiter did after the chain failed.
C9_MasteringAppliedOnlyIfChainSucceeded ==
  \A r \in Reqs :
    resp[r].status = "success" /\ resp[r].mastering_applied =>
      master_success[r] = "True"

\* C10: the stems a success response reports are the stems that were
\* rendered and summed into the mix: fx_rendered is true only if
\* render_fx_stem wrote the FX stem, and stems_count counts no stem whose
\* file was never produced.
C10_ReportedStemsWereMixed ==
  \A r \in Reqs :
    resp[r].status = "success" =>
      /\ resp[r].fx_rendered => calls[r].fx = "True"
      /\ resp[r].stems_count = Cardinality(calls[r].loaded)

\* C11: when an otherwise unhandled exception ends produce, the response is
\* the generic error (500) carrying the exception text, and no file is left
\* at output_path nor at the derived _fallback path.
C11_NoFileLeftAfterException ==
  \A r \in Reqs :
    /\ resp[r].status = "error" /\ resp[r].code = 500
    /\ resp[r].message \notin {"No stems rendered", "Mixing failed"}
    => /\ resp[r].message # ""
       /\ ~files[req[r].output_path].exists
       /\ ~files[StrReplaceWav(req[r].output_path)].exists

\* the kicks of the call whose curve covers sample idx (1-based), as indices
\* into kick_times
Covering(c, idx) ==
  LET span == Samples(c.attack_ms, c.sample_rate) + Samples(c.hold_ms, c.sample_rate)
              + Samples(c.release_ms, c.sample_rate)
  IN {k \in 1..Len(c.kick_times) :
        LET start == (c.kick_times[k] * c.sample_rate) \div 1000
        IN start <= idx - 1 /\ idx - 1 < start + span}

\* the value of kick k's own curve at sample idx
CurveAt(c, k, idx) ==
  DuckCurve((idx - 1) - (c.kick_times[k] * c.sample_rate) \div 1000,
            c.sidechain_amount,
            Samples(c.attack_ms, c.sample_rate),
            Samples(c.hold_ms, c.sample_rate),
            Samples(c.release_ms, c.sample_rate))

\* C12: every sample of a sidechain envelope, MIDI-based or audio-based,
\* lies in [0, 1]; in the MIDI-based envelope a sample covered by N kick
\* curves has the minimum of the N curve values (not their product or sum),
\* and a sample covered by no curve is 1.0.
C12_EnvelopeInUnitRangeAndMinimum ==
  fn_result # <<>> /\ fn_args.fn \in {"create_sidechain_envelope_from_midi",
                                      "create_kick_envelope"} =>
    /\ \A idx \in 1..Len(fn_result.env) :
         0 <= fn_result.env[idx] /\ fn_result.env[idx] <= fn_result.one
    /\ fn_args.fn = "create_sidechain_envelope_from_midi" =>
         \A idx \in 1..Len(fn_result.env) :
           fn_result.env[idx] =
             IF Covering(fn_args, idx) = {} THEN fn_result.one
             ELSE Min({CurveAt(fn_args, k, idx) : k \in Covering(fn_args, idx)})

\* two curves overlap at a sample where both duck, by different amounts
C12_Witness ==
  /\ fn_result # <<>>
  /\ fn_args.fn = "create_sidechain_envelope_from_midi"
  /\ \E idx \in 1..Len(fn_result.env) :
       \E k1 \in Covering(fn_args, idx), k2 \in Covering(fn_args, idx) :
         /\ CurveAt(fn_args, k1, idx) < CurveAt(fn_args, k2, idx)
         /\ CurveAt(fn_args, k2, idx) < fn_result.one
         /\ fn_result.env[idx] = CurveAt(fn_args, k1, idx)
         /\ fn_result.env[idx] > 0

\* the first sample kick k of the call writes (0-based)
StartSample(c, k) == (c.kick_times[k] * c.sample_rate) \div 1000

\* C13: with kicks 0.5 s apart (120 BPM), amount 0.6 and the default attack
\* 5 ms, hold 50 ms and release 250 ms, and for any kicks spaced by at least
\* attack + hold + release (with an attack of at least one sample), the
\* multiplier of a sidechain-target stem is 1 - amount once a kick's attack
\* is over, and exactly 1.0 at the sample where each kick begins.
C13_DucksAndRecoversBeforeNextKick ==
  /\ fn_result # <<>>
  /\ fn_args.fn = "create_sidechain_envelope_from_midi"
  /\ Samples(fn_args.attack_ms, fn_args.sample_rate) >= 1
  /\ Samples(fn_args.hold_ms, fn_args.sample_rate)
       + Samples(fn_args.release_ms, fn_args.sample_rate) >= 1
  /\ \A k1 \in 1..Len(fn_args.kick_times), k2 \in 1..Len(fn_args.kick_times) :
       k1 # k2 /\ fn_args.kick_times[k1] <= fn_args.kick_times[k2] =>
         fn_args.kick_times[k2] - fn_args.kick_times[k1]
           >= fn_args.attack_ms + fn_args.hold_ms + fn_args.release_ms
  => \A k \in 1..Len(fn_args.kick_times) :
       LET start == StartSample(fn_args, k)
           ducked == start + Samples(fn_args.attack_ms, fn_args.sample_rate)
       IN /\ start < Len(fn_result.env) =>
               fn_result.multiplier[start + 1] = fn_result.one
          /\ ducked < Len(fn_result.env) =>
               fn_result.multiplier[ducked + 1] * AmountDen
                 = fn_result.one * (AmountDen - fn_args.sidechain_amount)

\* kicks on every beat at 120 BPM: 0.4 after the first kick's attack, still
\* ducked on the last sample of its release (305 ms), 1.0 where the second
\* kick begins
C13_Witness ==
  /\ fn_args = FourOnTheFloor
  /\ fn_result # <<>>
  /\ fn_result.multiplier[StartSample(fn_args, 1)
                          + Samples(fn_args.attack_ms, fn_args.sample_rate) + 1]
       * 10 = fn_result.one * 4
  /\ fn_result.multiplier[Samples(305, fn_args.sample_rate)] < fn_result.one
  /\ fn_result.multiplier[StartSample(fn_args, 2) + 1] = fn_result.one
  /\ Len(fn_result.multiplier) = Len(fn_result.env) + 1

\* the largest absolute number of a buffer
Peak(data) == Max({Abs(data[i]) : i \in 1..Len(data)})

\* C14: after summing, mix_stems scales the whole mix by the one factor
\* 0.8 / peak when the summed peak exceeds 0.8, so that its peak is exactly
\* 0.8, and leaves the mix as summed when the peak is at most 0.8; the
\* frames written never exceed 0.8 and no frame is ever scaled up.
C14_MixPeakAtMostHeadroom ==
  fn_result # <<>> /\ fn_args.fn = "mix_stems" /\ fn_result.ok =>
    LET sum == fn_result.summed
        out == fn_result.mixed
    IN /\ Len(out.data) = Len(sum.data)
       /\ Peak(out.data) * 10 <= 8 * out.den
       /\ \A i \in 1..Len(out.data) :
            Abs(out.data[i]) * sum.den <= Abs(sum.data[i]) * out.den
       /\ IF Peak(sum.data) * 10 > 8 * sum.den
          THEN /\ Peak(out.data) * 10 = 8 * out.den
               /\ \A i \in 1..Len(out.data) :
                    out.data[i] * 10 * Peak(sum.data) = 8 * sum.data[i] * out.den
          ELSE \A i \in 1..Len(out.data) :
                 out.data[i] * sum.den = sum.data[i] * out.den
       /\ \A i \in 1..Len(fn_result.written) :
            Abs(fn_result.written[i]) * 10 <= 8 * Int16Max

\* two stems whose sum peaks above 0.8 and is scaled down, a quieter frame
\* of the mix being scaled with it
C14_Witness ==
  /\ fn_result # <<>> /\ fn_args.fn = "mix_stems" /\ fn_result.ok
  /\ Len(fn_args.stems) = 2
  /\ Peak(fn_result.summed.data) * 10 > 8 * fn_result.summed.den
  /\ Peak(fn_result.mixed.data) * 10 = 8 * fn_result.mixed.den
  /\ \E i \in 1..Len(fn_result.mixed.data) :
       /\ fn_result.mixed.data[i] # 0
       /\ Abs(fn_result.mixed.data[i]) < Peak(fn_result.mixed.data)

\* C15: mixing a single stem with gain 1.0 that is no sidechain target
\* gives that stem's buffer frame for frame when its peak is at most 0.8,
\* and that buffer scaled to peak 0.8 otherwise, with or without a MIDI file
\* or a kick stem for the envelope.
C15_SingleStemIsReproduced ==
  /\ fn_result # <<>> /\ fn_args.fn = "mix_stems" /\ fn_result.ok
  /\ Len(fn_args.stems) = 1
  /\ Gain(fn_args.stems[1].name, fn_args.opt.stem_gains) = 10
  /\ fn_args.stems[1].name \notin fn_args.opt.apply_sidechain_to
  => LET data == fn_args.stems[1].data
         out == fn_result.mixed
     IN /\ fn_result.rate = fn_args.stems[1].rate
        /\ Len(out.data) = Len(data)
        /\ \A i \in 1..Len(data) :
             IF Peak(data) * 10 <= 8 * MaxAmp
             THEN out.data[i] * MaxAmp = data[i] * out.den
             ELSE out.data[i] * 10 * Peak(data) = 8 * data[i] * out.den

\* the kick stem alone, quieter than 0.8 and not silent, with a MIDI file
\* whose kick ducks the second frame of the envelope
C15_Witness ==
  /\ fn_result # <<>> /\ fn_args.fn = "mix_stems" /\ fn_result.ok
  /\ Len(fn_args.stems) = 1
  /\ fn_args.stems[1].name = "kick"
  /\ fn_args.opt.midi = <<<<0>>>>
  /\ Len(fn_args.stems[1].data) = 2
  /\ fn_args.stems[1].data[2] # 0
  /\ Peak(fn_args.stems[1].data) * 10 <= 8 * MaxAmp
  /\ fn_result.mixed.data[2] * MaxAmp = fn_args.stems[1].data[2] * fn_result.mixed.den

\* the same mapping with its entries in the opposite order
Reversed(stems) == [i \in 1..Len(stems) |-> stems[Len(stems) + 1 - i]]

\* C16: the result of mix_stems (rate, length and every frame) does not
\* depend on the order of the stems in the mapping, also for stems of
\* different rates and lengths: mixing the reversed mapping gives the same
\* result.
C16_MixIndependentOfStemOrder ==
  fn_result # <<>> /\ fn_args.fn = "mix_stems" /\ Len(fn_args.stems) = 2 =>
    \E resampled \in Resamplings(Reversed(fn_args.stems), 1) :
      \E smoothed \in KickSmoothings(Reversed(fn_args.stems),
                                     MaxLength(Reversed(fn_args.stems))) :
        LET other == mix_stems_samples(
                       Reversed(fn_args.stems), fn_args.opt.apply_sidechain_to,
                       fn_args.opt.stem_gains, fn_args.opt.midi,
                       fn_args.opt.sidechain_amount, resampled, smoothed)
        IN /\ other.ok = fn_result.ok
           /\ fn_result.ok =>
                /\ other.rate = fn_result.rate
                /\ Len(other.mixed.data) = Len(fn_result.mixed.data)
                /\ \A i \in 1..Len(fn_result.mixed.data) :
                     other.mixed.data[i] * fn_result.mixed.den
                       = fn_result.mixed.data[i] * other.mixed.den

\* the checks that precede the duration and RMS thresholds all pass
ReachesThresholds(f) ==
  /\ f.exists /\ f.size >= MinFileSize /\ f.header = "ok"
  /\ f.frames > 0 /\ f.rate > 0

\* C17: validate_audio_file accepts at the thresholds and rejects just
\* below them: a file as long as the minimum duration is not rejected for its
\* duration and a shorter one is; a file at least that long whose RMS
\* equals the minimum is accepted, one a tenth of a dB below is rejected as
\* too quiet, and one whose RMS is exactly 0 is rejected as silent.
C17_AcceptsAtThresholdsRejectsBelow ==
  fn_result # <<>> /\ fn_args.fn = "validate_audio_file"
  /\ ReachesThresholds(fn_args.file) =>
    LET f == fn_args.file
        long == f.frames * 1000 >= fn_args.min_duration_ms * f.rate
    IN /\ ~long => fn_result = <<FALSE, "Duration too short">>
       /\ long => fn_result[2] # "Duration too short"
       /\ long /\ f.rms = RmsZero =>
            fn_result = <<FALSE, "Audio is completely silent (RMS=0)">>
       /\ long /\ f.rms # RmsZero /\ f.rms < fn_args.min_rms_db10 =>
            fn_result = <<FALSE, "Audio too quiet">>
       /\ long /\ f.rms # RmsZero /\ f.rms >= fn_args.min_rms_db10 =>
            fn_result = <<TRUE, "None">>

\* a file of exactly 2.0 s whose RMS is exactly -60.0 dB is accepted
C17_Witness ==
  /\ fn_result # <<>> /\ fn_args.fn = "validate_audio_file"
  /\ ReachesThresholds(fn_args.file)
  /\ fn_args.file.frames * 1000 = MinDurationMs * fn_args.file.rate
  /\ fn_args.file.rms = MinRmsDb10
  /\ fn_result = <<TRUE, "None">>

\* the checks of validate_audio_file in the order the code makes them: each
\* is the reason returned when it fails and what is true of the file then
Checks(f, min_duration_ms, min_rms_db10) ==
  << [reason |-> "File does not exist", fails |-> ~f.exists],
     [reason |-> "File is zero bytes", fails |-> f.size = 0],
     [reason |-> "File suspiciously small", fails |-> f.size < MinFileSize],
     [reason |-> "Invalid WAV format", fails |-> f.header = "bad"],
     [reason |-> "Validation error", fails |-> f.header = "cut"],
     [reason |-> "WAV has zero frames", fails |-> f.frames = 0],
     [reason |-> "WAV has invalid sample rate", fails |-> f.rate = 0],
     [reason |-> "Duration too short",
      fails |-> f.frames * 1000 < min_duration_ms * f.rate],
     [reason |-> "Audio is completely silent (RMS=0)", fails |-> f.rms = RmsZero],
     [reason |-> "Audio too quiet", fails |-> f.rms < min_rms_db10] >>

\* C18: validate_audio_file makes its checks in a fixed order (exists, size,
\* header, frames, rate, duration, RMS) and returns (False, reason) for the
\* first one that fails, whatever the later ones would say; it returns
\* (True, None) only if all pass; it always returns a pair and never
\* raises, an exception inside being returned as an invalid result.
C18_FirstFailingCheckDecides ==
  fn_result # <<>> /\ fn_args.fn = "validate_audio_file" =>
    LET checks == Checks(fn_args.file, fn_args.min_duration_ms,
                         fn_args.min_rms_db10)
        failing == {k \in 1..Len(checks) : checks[k].fails}
    IN /\ fn_result \in BOOLEAN \X ({"None"} \cup {checks[k].reason : k \in 1..Len(checks)})
       /\ fn_result[1] <=> failing = {}
       /\ fn_result[1] => fn_result[2] = "None"
       /\ ~fn_result[1] => fn_result[2] = checks[Min(failing)].reason

\* a file that is too short and silent as well is rejected for its duration,
\* and a file whose header cannot be read to its end is rejected, not raised
C18_Witness ==
  /\ fn_result # <<>> /\ fn_args.fn = "validate_audio_file"
  /\ \/ /\ ReachesThresholds(fn_args.file)
        /\ fn_args.file.frames * 1000 < MinDurationMs * fn_args.file.rate
        /\ fn_args.file.rms = RmsZero
        /\ fn_result = <<FALSE, "Duration too short">>
     \/ /\ fn_args.file.size >= MinFileSize
        /\ fn_args.file.header = "cut"
        /\ fn_args.file.frames = 0
        /\ fn_result = <<FALSE, "Validation error">>

\* C19: save_wav followed by load_wav returns as many frames as were saved,
\* each differing from the saved value clipped to [-1, 1] by at most one
\* 16-bit step (1 / 32768); values outside [-1, 1] are clipped, not wrapped:
\* the 16-bit sample written has the sign of the value and is at most 32767
\* in magnitude.
C19_RoundTripWithinOneStep ==
  fn_result # <<>> /\ fn_args.fn = "save_wav" =>
    /\ Len(fn_result.loaded.data) = Len(fn_args.data)
    /\ \A i \in 1..Len(fn_args.data) :
         /\ fn_result.written[i] \in -Int16Max..Int16Max
         /\ fn_result.written[i] * fn_args.data[i] >= 0
         /\ Abs(Clip(fn_args.data[i], Levels) * fn_result.loaded.den
                  - fn_result.loaded.data[i] * Levels) <= Levels

\* C20: for a request of genre RAP, HOUSE, RNB, EDM_CHILL or EDM_DROP whose
\* preset loaded, the sample drums it asks for are rendered with the kit of
\* the genre, and mix_stems is called with the sidechain_amount of the
\* loaded preset, whatever that amount is in [0, 1], never with the built-in
\* default or another preset's amount.
C20_GenreSelectsKitAndSidechain ==
  fn_result # <<>> /\ fn_args.fn = "produce"
  /\ fn_args.genre \in {"RAP", "HOUSE", "RNB", "EDM_CHILL", "EDM_DROP"}
  /\ fn_result.mix_preset # <<>> =>
    /\ fn_args.use_sample_drums => fn_result.kit = kit_name(fn_args.genre)
    /\ fn_result.mixer # <<>>
    /\ fn_result.mixer[1].sidechain_amount
         = fn_args.presets[genre_map(fn_args.genre)][1]

\* C21: with one caller at a time, the k-th round-robin draw from a category
\* with a pool of n >= 1 samples returns pool entry k mod n; between calls
\* every such category's cursor is in 0..n-1 and equals the number of
\* round-robin draws made from it mod n, so that a draw from another
\* category, a call that returns no sample and a call with the random or
\* the velocity policy leave it alone.
C21_RoundRobinCyclesPerCategory ==
  fn_result # <<>> /\ fn_args.fn = "get_sample" =>
    /\ \A c \in DOMAIN fn_args.pools :
         fn_args.pools[c] >= 1 /\ (\A r \in Reqs : fn_result.pc[r] = "idle") =>
           /\ fn_result.round_robin_idx[c] \in 0..(fn_args.pools[c] - 1)
           /\ fn_result.round_robin_idx[c] = fn_result.draws[c] % fn_args.pools[c]
    /\ \A r \in fn_args.callers :
         LET d == fn_result.last[r]
         IN /\ d.method = "round-robin" /\ d.entry >= 0 =>
                 d.entry = (fn_result.draws[d.category] - 1) % fn_args.pools[d.category]
            /\ d.entry = -1 <=>
                 \/ d.category = "None"
                 \/ d.category \in DOMAIN fn_args.pools /\ fn_args.pools[d.category] = 0

\* the third round-robin draw from a pool of two returns its first sample
\* again
C21_Witness ==
  /\ fn_result # <<>> /\ fn_args.fn = "get_sample"
  /\ fn_args.pools["kick"] = 2
  /\ fn_result.draws["kick"] = 3
  /\ fn_result.calls[1] = 3
  /\ fn_result.last[1] = [method |-> "round-robin", category |-> "kick", entry |-> 0]
  /\ fn_result.pc[1] = "idle"
  /\ fn_result.round_robin_idx["kick"] = 1

C23_ProceduralHitsWhereSampledHitsAre ==
  fn_result # <<>> /\ fn_args.fn = "render_midi_to_drums" =>
    LET sampled == render_midi(fn_args.midi)
    IN /\ fn_result.ok
       /\ Len(fn_result.hits) = Len(sampled.hits)
       /\ \A k \in 1..Len(sampled.hits) :
            /\ fn_result.hits[k].pos = sampled.hits[k].pos
            /\ fn_result.hits[k].placed = sampled.hits[k].placed

\* the markers of the single track of the file, [text, time in ms at 120 BPM]
MarkersOf(midi) ==
  LET found == SelectSeq(Timed(midi.tracks, 1), LAMBDA e : e.msg.type = "marker")
  IN [k \in 1..Len(found) |->
        [text |-> found[k].msg.text,
         time |-> TickMs(midi, found[k].ticks, DefaultTempo)]]

\* C25: when some marker matches a keyword group, the FX events are, marker
\* by marker: for 'drop' or 'build' an uplifter of 2 s that starts 2 s
\* before the marker but not before 0, for 'break' (hence 'breakdown') a
\* downlifter at the marker, for 'intro', 'verse' or 'chorus' an impact at
\* the marker; a marker of several groups gives one event per group, a
\* marker of none gives none, and no event time is negative.
C25_MarkersGiveFxEvents ==
  fn_result # <<>> /\ fn_args.fn = "parse_fx_events_from_midi"
  /\ Len(fn_args.midi.tracks) = 1 =>
    LET markers == MarkersOf(fn_args.midi)
        events == fn_result.events
        Of(type) == SelectSeq(events, LAMBDA e : e.type = type)
        With(words) == SelectSeq(markers, LAMBDA m : m.text \cap words # {})
        up == With({"drop", "build"})
        down == With({"break"})
        hit == With({"intro", "verse", "chorus"})
    IN Len(up) + Len(down) + Len(hit) > 0 =>
         /\ Len(events) = Len(up) + Len(down) + Len(hit)
         /\ \A k \in 1..Len(events) : events[k].time >= 0
         /\ Len(Of("uplifter")) = Len(up)
         /\ \A k \in 1..Len(up) :
              /\ Of("uplifter")[k].duration = 2000
              /\ Of("uplifter")[k].time =
                   (IF up[k].time >= 2000 THEN up[k].time - 2000 ELSE 0)
         /\ Len(Of("downlifter")) = Len(down)
         /\ \A k \in 1..Len(down) : Of("downlifter")[k].time = down[k].time
         /\ Len(Of("impact")) = Len(hit)
         /\ \A k \in 1..Len(hit) : Of("impact")[k].time = hit[k].time

\* a marker of three groups half a second into the file gives an uplifter at
\* 0, a downlifter and an impact; the marker without keyword before it gives
\* nothing
C25_Witness ==
  /\ fn_result # <<>> /\ fn_args.fn = "parse_fx_events_from_midi"
  /\ Len(fn_args.midi.tracks) = 1
  /\ MarkersOf(fn_args.midi) =
       << [text |-> {}, time |-> 0],
          [text |-> {"drop", "break", "chorus"}, time |-> 500] >>
  /\ fn_result.events =
       << [time |-> 0, type |-> "uplifter", duration |-> 2000],
          [time |-> 500, type |-> "downlifter", duration |-> 1500],
          [time |-> 500, type |-> "impact", duration |-> 500] >>

\* C26: for a file without markers the FX events are impacts at the fixed
\* cadence of 16 s: exactly one at every 16 * i seconds (i = 1, 2, ...)
\* inside the duration of the track, and nothing else.
C26_ImpactsEverySixteenSeconds ==
  fn_result # <<>> /\ fn_args.fn = "parse_fx_events_from_midi"
  /\ Len(fn_args.midi.tracks) = 1 /\ MarkersOf(fn_args.midi) = <<>> =>
    LET inside == {i \in 1..10 : i * 16000 < MidiLength(fn_args.midi)}
    IN /\ Len(fn_result.events) = Cardinality(inside)
       /\ \A i \in inside :
            fn_result.events[i] =
              [time |-> i * 16000, type |-> "impact", duration |-> 500]

\* C29: the one tempo that converts ticks to seconds in the kick parser, in
\* the drum sampler and in the FX marker parser is the first set_tempo of
\* the file in track order, or 120 BPM when the file has none; a set_tempo
\* of a later track does not replace it: every kick time, hit position and
\* uplifter time is the one computed with that tempo.
C29_FirstTempoOfFileIsUsed ==
  fn_result # <<>> /\ fn_args.fn \in {"parse_kick_events_from_midi",
                                      "render_midi", "parse_fx_events_from_midi"} =>
    LET midi == fn_args.midi
        all == Timed(midi.tracks, 1)
        tempos == {k \in 1..Len(all) : all[k].msg.type = "set_tempo"}
        first == IF tempos = {} THEN DefaultTempo ELSE all[Min(tempos)].msg.tempo
        Of(types, notes) ==
          SelectSeq(all, LAMBDA e : e.msg.type \in types /\ e.msg.note \in notes)
        At(e) == TickMs(midi, e.ticks, first)
    IN CASE fn_args.fn = "parse_kick_events_from_midi" ->
              fn_result.kick_times
                = [k \in 1..Len(Of({"note_on"}, {36})) |-> At(Of({"note_on"}, {36})[k])]
         [] fn_args.fn = "render_midi" ->
              \A k \in 1..Len(fn_result.hits) :
                fn_result.hits[k].pos
                  = Samples(At(Of({"note_on"}, {36, 38})[k]), SampleRate)
         [] OTHER ->
              \A k \in 1..Len(Of({"marker"}, {0})) :
                fn_result.events[k].time
                  = Max({0, At(Of({"marker"}, {0})[k]) - 2000})

\* C30: once apply_mastering_chain has returned, with True or with False,
\* neither of its two temporary files (the EQ output and the compressor
\* output) exists any more, whichever stage failed and however it failed.
C30_MasteringLeavesNoTempFiles ==
  \A r \in Reqs :
    calls[r].stages # <<>> =>
      ~files[TempEq(r)].exists /\ ~files[TempComp(r)].exists

\* C27: mix_stems takes the ducking envelope from the MIDI kick timing when
\* there is one, and from the audio of the kick stem when there is none (no
\* MIDI file, or a MIDI file from which no kick time is read) and a kick stem
\* exists: a call with a MIDI file without kick times mixes exactly as the
\* same call without a MIDI file does.
C27_KickStemEnvelopeWhenNoMidiTiming ==
  fn_result # <<>> /\ fn_args.fn = "mix_stems"
  /\ fn_args.opt.midi = <<<<>>>> /\ KickStem(fn_args.stems) # <<>> =>
    \E resampled \in Resamplings(fn_args.stems, 1) :
      \E smoothed \in KickSmoothings(fn_args.stems, MaxLength(fn_args.stems)) :
        fn_result = mix_stems_samples(
                      fn_args.stems, fn_args.opt.apply_sidechain_to,
                      fn_args.opt.stem_gains, <<>>,
                      fn_args.opt.sidechain_amount, resampled, smoothed)

\* C28: loading the genre's mix preset never keeps a request from the mixing
\* step: a request that has rendered stems, has its preset loaded and has
\* been answered has called mix_stems.
C28_PresetRequestReachesMixer ==
  \A r \in Reqs :
    mix_preset[r] # "None" /\ stem_wavs[r] # <<>> /\ resp[r] # NoResponse =>
      calls[r].mix > 0

\* C24: each procedural drum generator is a function of its parameters
\* only: two calls with the same parameters return identical buffers.
C24_GeneratorsArePure ==
  Len(fn_result) = 2 /\ fn_args.fn \in {"synthesize_808_kick",
      "synthesize_house_kick", "synthesize_snare", "synthesize_clap",
      "synthesize_hihat", "synthesize_percussion"} =>
    fn_result[1] = fn_result[2]

====
